---- MODULE Spec2Model ----
(***************************************************************************)
(* State-machine model of the orchestration core of Solana Narrative Pulse *)
(* (rate limiter, model router, diversity selector, narrative detection,   *)
(* edition history, collector aggregator).  Each component has its own     *)
(* specification; the variables of the other components stay at their      *)
(* initial value while one component runs.                                 *)
(***************************************************************************)
EXTENDS Integers, Sequences, FiniteSets, TLC

VARIABLES
    \* ---- sliding-window rate limiter (unnamed/part_011)
    now,            \* Date.now() in ms
    lastCleanup,    \* let lastCleanup
    rlStore,        \* const store: key -> timestamps (domain = keys present)
    rlConfig,       \* the RateLimitConfig each route passes to checkRateLimit
    rlAccepted,     \* history: every timestamp answered 'allowed', per key
    rlLast,         \* the answer of the latest checkRateLimit call
    rlDenied,       \* history: the latest 429 answer given to each key
    rlCalls,        \* number of checkRateLimit calls made
    \* ---- diversity selector (selectDiverseSignals)
    selInput,       \* the signals argument
    selMaxTotal,    \* MAX_SIGNALS_FOR_AI of the build
    selMinPerSource,\* MIN_PER_SOURCE of the build
    selOutput,      \* the returned list
    selDone,        \* whether the call has returned
    \* ---- model router (unnamed/part_013)
    anthropicDisabled, \* let anthropicDisabled: the circuit breaker
    hasAnthropic,      \* const anthropic is non-null (ANTHROPIC_API_KEY set)
    rtCalls,           \* the routeToModel calls: position, requests sent, result
    rtErr,             \* the error most recently caught by a route call
    rtActive,          \* what getActiveModels() last returned
    \* ---- edition history store (unnamed/part_014)
    hDisk,          \* narrative-history.json: whether it exists, whether its
                    \* content parses to a record with an editions list, its editions
    hMem,           \* memoryStore.editions, most recent first
    hLoadState,     \* initialLoadPromise / initialLoadDone: none, reading, done,
                    \* unusable (done, memoryStore has no editions list)
    hPending,       \* saveEdition calls suspended at await ensureLoaded(), FIFO
    hWrites,        \* the writes chained on writeLock, in the order persistToDisk chained them
    hSerial,        \* editions appended to this history so far, plus one
    hRecords,       \* number of saveEdition calls made
    hLast,          \* the latest saveEdition return value and the list it saw
    \* ---- narrative detection (unnamed/part_012, src/lib/ai/detector.ts)
    dVariant,       \* which of the two detectNarratives sources is built
    dSignals,       \* the signals argument
    dPc,            \* position of the run
    dRoutes,        \* roles detectNarratives passed to routeToModel, in order
    dFirst,         \* the first reasoning response, once it has arrived
    dRepair,        \* how the repair call ended
    dTimer,         \* the 45 s timer of the timeout race: unset, armed, fired
    dAbandoned,     \* the first call is still pending after the timeout won
    dResult,        \* what detectNarratives resolved with
    dContexts,      \* ids of the input signals whose aiContext the run has set
    dDiscarded,     \* a response arrived after the timeout had won the race
    dIdeas,         \* detector.ts: per returned narrative, how far idea generation is and its ideas
    dPrevTitles,    \* previousIdeaTitles was passed and is not empty
    \* ---- signal aggregation (src/lib/collectors/aggregator.ts, src/lib/cache.ts)
    aNow,           \* Date.now() as the aggregator and the cache see it
    aCache,         \* the cache entry stored under 'all-signals'
    aPc,            \* position of the collectAllSignals call
    aSettled,       \* per collector: idle, pending, fulfilled or rejected
    aReturned,      \* per collector: the value its promise fulfilled with
    aResult,        \* what collectAllSignals resolved with
    aCalls,         \* number of collectAllSignals calls so far
    aForce,         \* options.forceRefresh of the current call
    aCollectedAt,   \* const collectedAt of the collection in progress
    \* ---- TTL cache (src/lib/cache.ts)
    cNow,           \* Date.now() as the cache sees it
    cStore,         \* const store: per key, the entry if any
    cLatest,        \* per key, the latest setCache not removed by an invalidation
    cLastStats,     \* what the latest call returned, when it was getCacheStats
    cLastGet,       \* the latest getCached call and what it returned
    cOps,           \* number of cache calls so far
    \* ---- route handlers (unnamed/part_001, app/api/agent/route.ts, app/api/signals/route.ts)
    eHandler,       \* the handler serving the current request
    eOpts,          \* its inputs: refresh flag, session dedup titles, client signals
    ePc,            \* position of the handler
    eLimiter,       \* what checkRateLimit answered for this request, if called
    eWork,          \* calls this request has started: collect, detect, save, cache set
    eNarrCache,     \* the cache entry stored under 'narrative-result'
    eResponse,      \* the response of the current request
    eRequests,      \* number of requests served so far
    \* ---- clustering (src/lib/collectors/aggregator.ts)
    kA,             \* the signal list clusterSignals and clusterStrength are applied to
    kB,             \* a second signal list clusterStrength is applied to
    kStrength,      \* the two clusterStrength results, once computed
    kClusters,      \* the clusterSignals result for kA, once computed
    \* ---- overlapping collectAllSignals calls (src/lib/collectors/aggregator.ts)
    oNow,           \* Date.now()
    oCache,         \* the cache entry stored under 'all-signals'
    oCalls,         \* per call: position, collector outcomes, locals, return value
    oFinished,      \* the calls that returned after collecting, in the order they returned
    oOverlapped,    \* a call was started while another one was collecting
    \* ---- signal contexts of a parsed response (detectNarratives)
    xInsights,      \* parsed.topSignalInsights: signal id -> context
    xNarrs,         \* parsed.narratives: the supportingSignals list of each entry
    xOut,           \* the narratives' signals and signalContexts, once transformed
    \* ---- the merged result shared by the cache and its callers
    mResults,       \* the signal objects of each merged result built so far
    mCache,         \* the merged result the 'all-signals' entry refers to, 0: none
    mReq,           \* per request: position, the result it holds, the detect path
    mLastHit        \* what the latest cache hit of collectAllSignals returned

varsRL  == <<now, lastCleanup, rlStore, rlConfig, rlAccepted, rlLast, rlDenied, rlCalls>>
varsSel == <<selInput, selMaxTotal, selMinPerSource, selOutput, selDone>>
varsRouter == <<anthropicDisabled, hasAnthropic, rtCalls, rtErr, rtActive>>
varsDetect == <<dVariant, dSignals, dPc, dRoutes, dFirst, dRepair, dTimer,
                dAbandoned, dResult, dContexts, dDiscarded, dIdeas, dPrevTitles>>
varsAgg == <<aNow, aCache, aPc, aSettled, aReturned, aResult, aCalls, aForce,
             aCollectedAt>>
varsHist == <<hDisk, hMem, hLoadState, hPending, hWrites, hSerial,
              hRecords, hLast>>

----------------------------------------------------------------------------
(* Generic helpers                                                         *)

Max(a, b) == IF a >= b THEN a ELSE b
Min(a, b) == IF a <= b THEN a ELSE b

\* Math.ceil(a / b) for integers a, b > 0
CeilDiv(a, b) == (a + b - 1) \div b

\* Array.prototype.slice(0, n)
Take(s, n) == SubSeq(s, 1, Min(Len(s), Max(n, 0)))

\* Array.prototype.slice(from, to) with 0-based from, exclusive to
Slice(s, from, to) == SubSeq(s, Min(from, Len(s)) + 1, Min(to, Len(s)))

Range(s) == {s[i] : i \in 1..Len(s)}

----------------------------------------------------------------------------
(* Sliding-window rate limiter: unnamed/part_011                           *)

CLEANUP_INTERVAL == 300000
NARRATIVES_WINDOW_MS == 900000
SIGNALS_WINDOW_MS == 300000

\* Bounds of the rate-limiter model
MaxChecks == 5

RouteKeys == {"narratives", "signals"}
ClientId  == "10.0.0.1"
RLKey(route) == <<route, ClientId>>
RLKeys == {RLKey(r) : r \in RouteKeys}

\* Configs a route may pass (checkRateLimit takes the config as a
\* parameter): windows shorter than, equal to and longer than the window
\* the sweep filters with
ConfigSet == { [maxRequests |-> 1, windowMs |-> 2000],
               [maxRequests |-> 2, windowMs |-> 3000],
               [maxRequests |-> 2, windowMs |-> 900000],
               [maxRequests |-> 1, windowMs |-> 1200000] }

\* Time that may pass between two calls (ms)
TimeSteps == {0, 1000, 1500, 300000}

\* entry.timestamps.filter(t => now - t < windowMs)
SlideWindow(ts, t, windowMs) == SelectSeq(ts, LAMBDA x : t - x < windowMs)

\* Math.max(RATE_LIMITS.NARRATIVES.windowMs, RATE_LIMITS.SIGNALS.windowMs)
SweepWindow == Max(NARRATIVES_WINDOW_MS, SIGNALS_WINDOW_MS)

\* cleanup(maxWindowMs): runs at most once per CLEANUP_INTERVAL
CleanupDue(t) == ~(t - lastCleanup < CLEANUP_INTERVAL)

Swept(store, t, maxWindowMs) ==
    LET kept == {k \in DOMAIN store : SlideWindow(store[k], t, maxWindowMs) # <<>>}
    IN  [k \in kept |-> SlideWindow(store[k], t, maxWindowMs)]

\* if (entry.timestamps.length >= config.maxRequests)
LimitReached(ts, cfg) == Len(ts) >= cfg.maxRequests

\* retryAfterSec = ceil((windowMs - (now - oldestInWindow)) / 1000)
RetryAfterSec(ts, t, cfg) == CeilDiv(cfg.windowMs - (t - ts[1]), 1000)

\* No 429 answer was given to the key yet
NoDenial == [denied |-> FALSE, at |-> 0, retryAfter |-> 0, oldest |-> 0, accepted |-> 0]

\* Variant: the timestamp of a denied call is recorded as well
CheckRateLimitRecordsDenied(route, d) ==
    LET t     == now + d
        key   == RLKey(route)
        cfg   == rlConfig[route]
        due   == CleanupDue(t)
        clean == IF due
                 THEN Swept(rlStore, t, SweepWindow)
                 ELSE rlStore
        entry == IF key \in DOMAIN clean THEN clean[key] ELSE <<>>
        slid  == SlideWindow(entry, t, cfg.windowMs)
        deny  == LimitReached(slid, cfg)
        newTs == Append(slid, t)
    IN  /\ rlCalls < MaxChecks
        /\ now' = t
        /\ lastCleanup' = IF due THEN t ELSE lastCleanup
        /\ rlStore' = [k \in (DOMAIN clean) \cup {key} |->
                          IF k = key THEN newTs ELSE clean[k]]
        /\ rlAccepted' = IF deny THEN rlAccepted
                         ELSE [rlAccepted EXCEPT ![key] = Append(@, t)]
        /\ rlLast' = [key |-> key, at |-> t, allowed |-> ~deny, swept |-> due,
                      retryAfter |-> IF deny THEN RetryAfterSec(slid, t, cfg) ELSE 0]
        /\ rlDenied' = IF deny
                       THEN [rlDenied EXCEPT ![key] =
                                [denied |-> TRUE, at |-> t,
                                 retryAfter |-> RetryAfterSec(slid, t, cfg),
                                 oldest |-> slid[1],
                                 accepted |-> Len(rlAccepted[key])]]
                       ELSE rlDenied
        /\ rlCalls' = rlCalls + 1
        /\ UNCHANGED rlConfig

\* One checkRateLimit(request, routeKey, config) call, d ms after the last one
CheckRateLimit(route, d) ==
    LET t     == now + d
        key   == RLKey(route)
        cfg   == rlConfig[route]
        due   == CleanupDue(t)
        clean == IF due
                 THEN Swept(rlStore, t, SweepWindow)
                 ELSE rlStore
        entry == IF key \in DOMAIN clean THEN clean[key] ELSE <<>>
        slid  == SlideWindow(entry, t, cfg.windowMs)
        deny  == LimitReached(slid, cfg)
        newTs == IF deny THEN slid ELSE Append(slid, t)
    IN  /\ rlCalls < MaxChecks
        /\ now' = t
        /\ lastCleanup' = IF due THEN t ELSE lastCleanup
        /\ rlStore' = [k \in (DOMAIN clean) \cup {key} |->
                          IF k = key THEN newTs ELSE clean[k]]
        /\ rlAccepted' = IF deny THEN rlAccepted
                         ELSE [rlAccepted EXCEPT ![key] = Append(@, t)]
        /\ rlLast' = [key |-> key, at |-> t, allowed |-> ~deny, swept |-> due,
                      retryAfter |-> IF deny THEN RetryAfterSec(slid, t, cfg) ELSE 0]
        /\ rlDenied' = IF deny
                       THEN [rlDenied EXCEPT ![key] =
                                [denied |-> TRUE, at |-> t,
                                 retryAfter |-> RetryAfterSec(slid, t, cfg),
                                 oldest |-> slid[1],
                                 accepted |-> Len(rlAccepted[key])]]
                       ELSE rlDenied
        /\ rlCalls' = rlCalls + 1
        /\ UNCHANGED rlConfig

InitRL ==
    /\ now = 0
    /\ lastCleanup = 0
    /\ rlStore = <<>>
    /\ rlConfig \in [RouteKeys -> ConfigSet]
    /\ rlAccepted = [k \in RLKeys |-> <<>>]
    /\ rlLast = [key |-> <<>>, at |-> 0, allowed |-> TRUE, swept |-> FALSE, retryAfter |-> 0]
    /\ rlDenied = [k \in RLKeys |-> NoDenial]
    /\ rlCalls = 0

\* Configs that include a window longer than the two RATE_LIMITS windows
WideConfigSet == { [maxRequests |-> 1, windowMs |-> 2000],
                   [maxRequests |-> 1, windowMs |-> 1200000] }

\* The module after loading, with routes that may pass a longer window
InitRLWide ==
    /\ now = 0
    /\ lastCleanup = 0
    /\ rlStore = <<>>
    /\ rlConfig \in [RouteKeys -> WideConfigSet]
    /\ rlAccepted = [k \in RLKeys |-> <<>>]
    /\ rlLast = [key |-> <<>>, at |-> 0, allowed |-> TRUE, swept |-> FALSE, retryAfter |-> 0]
    /\ rlDenied = [k \in RLKeys |-> NoDenial]
    /\ rlCalls = 0

\* RATE_LIMITS: the configs the route handlers pass
RATE_LIMITS ==
    [narratives |-> [maxRequests |-> 10, windowMs |-> NARRATIVES_WINDOW_MS],
     signals    |-> [maxRequests |-> 10, windowMs |-> SIGNALS_WINDOW_MS]]

\* Requests of the client admitted earlier in the window of a route: none,
\* or one less than the route's maxRequests
ServedBefore ==
    [r \in RouteKeys |-> {0, RATE_LIMITS[r].maxRequests - 1}]

\* The limiter of a process whose handlers have just admitted used[r]
\* requests of the client on route key r
InitRLServing(used) ==
    /\ now = 0
    /\ lastCleanup = 0
    /\ rlStore = [k \in {RLKey(r) : r \in {q \in RouteKeys : used[q] > 0}} |->
                     [i \in 1..used[k[1]] |-> 0]]
    /\ rlConfig = RATE_LIMITS
    /\ rlAccepted = [k \in RLKeys |-> [i \in 1..used[k[1]] |-> 0]]
    /\ rlLast = [key |-> <<>>, at |-> 0, allowed |-> TRUE, swept |-> FALSE, retryAfter |-> 0]
    /\ rlDenied = [k \in RLKeys |-> NoDenial]
    /\ rlCalls = 0

IdleRL ==
    /\ now = 0
    /\ lastCleanup = 0
    /\ rlStore = <<>>
    /\ rlConfig = [r \in RouteKeys |-> [maxRequests |-> 1, windowMs |-> 2000]]
    /\ rlAccepted = [k \in RLKeys |-> <<>>]
    /\ rlLast = [key |-> <<>>, at |-> 0, allowed |-> TRUE, swept |-> FALSE, retryAfter |-> 0]
    /\ rlDenied = [k \in RLKeys |-> NoDenial]
    /\ rlCalls = 0

----------------------------------------------------------------------------
(* Diversity-aware signal selector: selectDiverseSignals                   *)

\* Bounds of the selector model
MaxSignals == 4

Sources   == {"market", "github", "social"}
Strengths == {10, 90}
MaxTotals == {1, 2, 3}
MinPerSources == {0, 1, 2}

\* Signals carry their position as id (ids are unique per Signal)
SignalLists ==
    UNION { { [i \in 1..n |-> [id |-> i, source |-> f[i][1], strength |-> f[i][2]]]
              : f \in [1..n -> Sources \X Strengths] } : n \in 0..MaxSignals }

\* arr.sort((a, b) => b.strength - a.strength): stable, descending
RECURSIVE InsertDesc(_, _)
InsertDesc(x, sorted) ==
    IF sorted = <<>> THEN <<x>>
    ELSE IF sorted[1].strength >= x.strength
         THEN <<sorted[1]>> \o InsertDesc(x, Tail(sorted))
         ELSE <<x>> \o sorted

RECURSIVE SortByStrengthDesc(_)
SortByStrengthDesc(s) ==
    IF s = <<>> THEN <<>>
    ELSE InsertDesc(s[Len(s)], SortByStrengthDesc(SubSeq(s, 1, Len(s) - 1)))

\* Keys of the bySource Map in insertion order
RECURSIVE SourcesInOrder(_)
SourcesInOrder(s) ==
    IF s = <<>> THEN <<>>
    ELSE LET front == SourcesInOrder(SubSeq(s, 1, Len(s) - 1))
             src   == s[Len(s)].source
         IN  IF src \in Range(front) THEN front ELSE Append(front, src)

BySource(signals, src) == SelectSeq(signals, LAMBDA x : x.source = src)

\* forEach(s => { if (!selected.has(s.id)) { selected.add(s.id); result.push(s) } })
RECURSIVE PushUnselected(_, _)
PushUnselected(result, items) ==
    IF items = <<>> THEN result
    ELSE LET x == items[1]
         IN  PushUnselected(
                 IF x.id \in {r.id : r \in Range(result)} THEN result
                 ELSE Append(result, x),
                 Tail(items))

\* Phase 1: top minPerSource of every source, in Map order
RECURSIVE Phase1(_, _, _, _)
Phase1(signals, srcs, minPerSource, result) ==
    IF srcs = <<>> THEN result
    ELSE Phase1(signals, Tail(srcs), minPerSource,
                PushUnselected(result,
                    Take(SortByStrengthDesc(BySource(signals, srcs[1])), minPerSource)))

Phase2TruncatesAll(result, remaining, maxTotal) ==
    Take(result \o remaining, maxTotal)

Phase2NoCap(result, remaining, maxTotal) ==
    result \o remaining

\* Phase 2: for (s of remaining) { if (result.length >= maxTotal) break; push }
Phase2(result, remaining, maxTotal) ==
    result \o Take(remaining, maxTotal - Len(result))

selectDiverseSignals(signals, maxTotal, minPerSource) ==
    IF Len(signals) <= maxTotal THEN signals
    ELSE LET p1   == Phase1(signals, SourcesInOrder(signals), minPerSource, <<>>)
             sel  == {r.id : r \in Range(p1)}
             rem  == SortByStrengthDesc(SelectSeq(signals, LAMBDA x : x.id \notin sel))
         IN  SortByStrengthDesc(Phase2(p1, rem, maxTotal))

InitSel ==
    /\ selInput \in SignalLists
    /\ selMaxTotal \in MaxTotals
    /\ selMinPerSource \in MinPerSources
    /\ selOutput = <<>>
    /\ selDone = FALSE

IdleSel ==
    /\ selInput = <<>>
    /\ selMaxTotal = 1
    /\ selMinPerSource = 0
    /\ selOutput = <<>>
    /\ selDone = FALSE

Select ==
    /\ ~selDone
    /\ selOutput' = selectDiverseSignals(selInput, selMaxTotal, selMinPerSource)
    /\ selDone' = TRUE
    /\ UNCHANGED <<selInput, selMaxTotal, selMinPerSource>>

----------------------------------------------------------------------------
(* Model router: unnamed/part_013                                          *)

\* Bounds of the router model
MaxRouteCalls == 3

RouteCallIds == 1..MaxRouteCalls
Roles == {"reasoning", "writing", "fallback"}

\* export const MODELS
MODELS(role) ==
    CASE role = "reasoning" -> [provider |-> "openai", model |-> "gpt-4o-mini"]
      [] role = "writing"   -> IF hasAnthropic
                               THEN [provider |-> "anthropic", model |-> "claude-sonnet-4-20250514"]
                               ELSE [provider |-> "openai", model |-> "gpt-4o-mini"]
      [] role = "fallback"  -> [provider |-> "openai", model |-> "gpt-4o-mini"]

\* Substrings of the lower-cased error message that the classifier looks for
MsgKeywords(msg) ==
    CASE msg = "your credit balance is too low"  -> {"credit"}
      [] msg = "billing hard limit reached"       -> {"billing"}
      [] msg = "you exceeded your current quota"  -> {"quota", "exceeded your current quota"}
      [] msg = "payment required"                 -> {"payment required"}
      [] msg = "insufficient funds"               -> {"insufficient funds"}
      [] OTHER                                    -> {}

\* Errors a provider request may fail with (status 0: no status field)
ProviderErrors ==
    { [status |-> 400, type |-> "billing_error",         msg |-> "bad request"],
      [status |-> 400, type |-> "invalid_request_error", msg |-> "your credit balance is too low"],
      [status |-> 400, type |-> "invalid_request_error", msg |-> "bad request"],
      [status |-> 403, type |-> "permission_error",      msg |-> "billing hard limit reached"],
      [status |-> 429, type |-> "insufficient_credits",  msg |-> "too many requests"],
      [status |-> 429, type |-> "rate_limit_error",      msg |-> "too many requests"],
      [status |-> 500, type |-> "api_error",             msg |-> "you exceeded your current quota"],
      [status |-> 529, type |-> "overloaded_error",      msg |-> "overloaded"],
      [status |-> 0,   type |-> "",                      msg |-> "empty response"] }

isAnthropicCreditError(err) ==
    LET kw == MsgKeywords(err.msg)
    IN  \/ /\ err.status \in {400, 403}
           /\ \/ err.type = "billing_error"
              \/ "billing" \in kw
              \/ "credit" \in kw
              \/ "quota" \in kw
        \/ /\ err.status = 429
           /\ (err.type = "insufficient_credits" \/ "credit" \in kw)
        \/ "insufficient funds" \in kw
        \/ "payment required" \in kw
        \/ "exceeded your current quota" \in kw

UseAnthropicFallbackNever(role) == FALSE

\* const useAnthropicFallback = config.provider === 'anthropic' && anthropicDisabled
UseAnthropicFallback(role) ==
    MODELS(role).provider = "anthropic" /\ anthropicDisabled

\* No error caught yet
NoError == [status |-> 0, type |-> "", msg |-> "none"]

IdleCall == [pc |-> "idle", role |-> "none", startedDisabled |-> FALSE,
             sent |-> <<>>, result |-> "none"]

\* routeToModel(role, ...) up to its first await
RouteStart(c, role) ==
    /\ rtCalls[c].pc = "idle"
    /\ rtCalls' = [rtCalls EXCEPT ![c] =
          IF UseAnthropicFallback(role)
          THEN [pc |-> "redirected", role |-> role, startedDisabled |-> anthropicDisabled,
                sent |-> <<[provider |-> "openai", model |-> "gpt-4o-mini"]>>,
                result |-> "none"]
          ELSE [pc |-> "first", role |-> role, startedDisabled |-> anthropicDisabled,
                sent |-> <<MODELS(role)>>, result |-> "none"]]
    /\ UNCHANGED <<anthropicDisabled, hasAnthropic, rtErr, rtActive>>

\* The awaited provider request of call c resolves
ProviderOk(c) ==
    /\ rtCalls[c].pc \in {"first", "second", "redirected"}
    /\ rtCalls' = [rtCalls EXCEPT ![c].pc = "done",
                                  ![c].result = rtCalls[c].sent[Len(rtCalls[c].sent)].provider]
    /\ UNCHANGED <<anthropicDisabled, hasAnthropic, rtErr, rtActive>>

\* The first request of call c rejects with err: the catch block
FirstAttemptFails(c, err) ==
    /\ rtCalls[c].pc = "first"
    /\ IF MODELS(rtCalls[c].role).provider = "anthropic" /\ isAnthropicCreditError(err)
       THEN /\ anthropicDisabled' = TRUE
            /\ rtCalls' = [rtCalls EXCEPT ![c].pc = "second",
                  ![c].sent = Append(@, [provider |-> "openai", model |-> "o3-mini"])]
       ELSE /\ anthropicDisabled' = anthropicDisabled
            /\ rtCalls' = [rtCalls EXCEPT ![c].pc = "second",
                  ![c].sent = Append(@, [provider |-> "openai",
                                         model |-> MODELS("fallback").model])]
    /\ rtErr' = err
    /\ UNCHANGED <<hasAnthropic, rtActive>>

\* Variant: a failing second request is re-issued to the fallback binding
LastAttemptFailsTriesAgain(c) ==
    /\ rtCalls[c].pc \in {"second", "redirected"}
    /\ rtCalls' = [rtCalls EXCEPT ![c].pc = "second",
          ![c].sent = Append(@, [provider |-> "openai",
                                 model |-> MODELS("fallback").model])]
    /\ UNCHANGED <<anthropicDisabled, hasAnthropic, rtErr, rtActive>>

\* A request outside the try block (redirected) or inside the catch block
\* (second) rejects: routeToModel rejects
LastAttemptFails(c) ==
    /\ rtCalls[c].pc \in {"second", "redirected"}
    /\ rtCalls' = [rtCalls EXCEPT ![c].pc = "failed", ![c].result = "error"]
    /\ UNCHANGED <<anthropicDisabled, hasAnthropic, rtErr, rtActive>>

\* The label field of MODELS[role]
ModelLabel(role) ==
    CASE role = "reasoning" -> "GPT-4o-mini (reasoning)"
      [] role = "writing"   -> IF hasAnthropic
                               THEN "Claude Sonnet 4 (writing)"
                               ELSE "GPT-4o-mini (writing)"
      [] role = "fallback"  -> "GPT-4o-mini (fallback)"

\* export function getActiveModels()
getActiveModels ==
    [reasoning    |-> ModelLabel("reasoning"),
     writing      |-> IF anthropicDisabled
                      THEN "o3-mini (Anthropic credits exhausted)"
                      ELSE ModelLabel("writing"),
     fallback     |-> ModelLabel("fallback"),
     hasAnthropic |-> hasAnthropic /\ ~anthropicDisabled]

\* getActiveModels() has not been called yet
NoReport == [reasoning |-> "", writing |-> "", fallback |-> "", hasAnthropic |-> FALSE]

\* Variant: reporting the active models also closes the breaker
GetActiveModelsResets ==
    /\ rtActive' = getActiveModels
    /\ anthropicDisabled' = FALSE
    /\ UNCHANGED <<hasAnthropic, rtCalls, rtErr>>

\* A caller (the dashboard's agent route) asks for the active models
GetActiveModels ==
    /\ rtActive' = getActiveModels
    /\ UNCHANGED <<anthropicDisabled, hasAnthropic, rtCalls, rtErr>>

InitRouter ==
    /\ anthropicDisabled = FALSE
    /\ hasAnthropic \in BOOLEAN
    /\ rtCalls = [c \in RouteCallIds |-> IdleCall]
    /\ rtErr = NoError
    /\ rtActive = NoReport

IdleRouter ==
    /\ anthropicDisabled = FALSE
    /\ hasAnthropic = TRUE
    /\ rtCalls = [c \in RouteCallIds |-> IdleCall]
    /\ rtErr = NoError
    /\ rtActive = NoReport

----------------------------------------------------------------------------
(* Edition history store: unnamed/part_014                                 *)

MAX_EDITIONS == 20

\* Bounds of the history model
MaxRecords == 2

Slugs == {"defi-renaissance", "depin-growth"}

Narr(slug, confidence) == [slug |-> slug, confidence |-> confidence]

\* Narrative lists a caller may record (slug and confidence of each entry)
RecordInputs ==
    { <<>>,
      <<Narr("defi-renaissance", 50)>>,
      <<Narr("defi-renaissance", 60)>>,
      <<Narr("defi-renaissance", 64)>>,
      <<Narr("defi-renaissance", 74)>>,
      <<Narr("depin-growth", 50)>>,
      <<Narr("defi-renaissance", 60), Narr("depin-growth", 39)>>,
      <<Narr("depin-growth", 50), Narr("depin-growth", 61)>> }

SlugsOf(edition) == {edition.narratives[i].slug : i \in 1..Len(edition.narratives)}

\* new Map(previous.narratives.map(n => [n.slug, n])).get(slug): the last
\* entry with that slug wins
PrevEntry(previous, slug) ==
    LET idx == {i \in 1..Len(previous.narratives) : previous.narratives[i].slug = slug}
    IN  previous.narratives[CHOOSE i \in idx : \A j \in idx : j <= i]

OlderEditionsOneMore(editions) == Slice(editions, 1, 6)

\* history.editions.slice(1, 5)
OlderEditions(editions) == Slice(editions, 1, 5)

OlderSlugs(editions) ==
    UNION {SlugsOf(OlderEditions(editions)[i]) : i \in 1..Len(OlderEditions(editions))}

StatusOfDeltaInclusive(delta) ==
    IF delta >= 10 THEN "rising"
    ELSE IF delta <= -10 THEN "fading"
    ELSE "stable"

\* if (confidenceDelta > 10) rising; else if (< -10) fading; else stable
StatusOfDelta(delta) ==
    IF delta > 10 THEN "rising"
    ELSE IF delta < -10 THEN "fading"
    ELSE "stable"

Compared(n, status, delta) ==
    [slug |-> n.slug, confidence |-> n.confidence,
     status |-> status, confidenceDelta |-> delta]

compareWithPrevious(current, editions) ==
    IF Len(editions) = 0
    THEN [i \in 1..Len(current) |-> Compared(current[i], "new", 0)]
    ELSE [i \in 1..Len(current) |->
            LET n == current[i]
            IN  IF n.slug \notin SlugsOf(editions[1])
                THEN IF n.slug \in OlderSlugs(editions)
                     THEN Compared(n, "returning", 0)
                     ELSE Compared(n, "new", 0)
                ELSE LET delta == n.confidence - PrevEntry(editions[1], n.slug).confidence
                     IN  Compared(n, StatusOfDelta(delta), delta)]

CapEditionsKeepsOneMore(editions) ==
    IF Len(editions) > MAX_EDITIONS + 1 THEN Take(editions, MAX_EDITIONS + 1) ELSE editions

\* if (history.editions.length > MAX_EDITIONS) editions = editions.slice(0, MAX_EDITIONS)
CapEditions(editions) ==
    IF Len(editions) > MAX_EDITIONS THEN Take(editions, MAX_EDITIONS) ELSE editions

\* editionId(): year, week, day, hour and minute of the call and three
\* random base-36 characters; two calls within a minute can return the
\* same id
EditionIds == {"E-2026-W44-30-1511-xcu", "E-2026-W44-30-1511-k3f"}

\* serial is the position of the edition in the order of the appends: it
\* names the edition in the properties and is no field of the stored record
NewEdition(current, editions, serial, id) ==
    [serial |-> serial, id |-> id,
     narratives |-> compareWithPrevious(current, editions)]

\* Variant: the new edition takes the place of the newest one
RecordedReplacesNewest(current, editions, serial, id) ==
    CapEditions(<<NewEdition(current, editions, serial, id)>> \o
                (IF Len(editions) = 0 THEN <<>> ELSE Tail(editions)))

\* history.editions.unshift(edition) followed by the cap
Recorded(current, editions, serial, id) ==
    CapEditions(<<NewEdition(current, editions, serial, id)>> \o editions)

\* The editions an earlier process left in the durable copy after m
\* saveEdition calls, newest first: the oldest names depin-growth, the
\* others defi-renaissance at confidence 50
PriorHistory(m) ==
    [i \in 1..m |->
        LET k == m + 1 - i
        IN  [serial |-> k,
             id |-> IF k % 2 = 1 THEN "E-2026-W44-30-1511-xcu"
                    ELSE "E-2026-W44-30-1511-k3f",
             narratives |->
                <<IF k = 1 THEN Compared(Narr("depin-growth", 70), "new", 0)
                  ELSE IF k = 2 THEN Compared(Narr("defi-renaissance", 50), "new", 0)
                  ELSE Compared(Narr("defi-renaissance", 50), "stable", 0)>>]]

NoRecord == [valid |-> FALSE, edition |-> <<>>, before |-> <<>>]

\* readHistory, getNarrativeTrajectory or getRecentIdeaTitles up to await
\* ensureLoaded(): the first caller starts the read, a later one changes
\* nothing
ReadHistoryStart ==
    /\ hLoadState = "none"
    /\ hLoadState' = "reading"
    /\ UNCHANGED <<hDisk, hMem, hPending, hWrites, hSerial, hRecords, hLast>>

\* saveEdition up to await ensureLoaded(); the first caller starts the read
SaveEditionStart(input) ==
    /\ hRecords < MaxRecords
    /\ hRecords' = hRecords + 1
    /\ hPending' = Append(hPending, input)
    /\ hLoadState' = IF hLoadState = "none" THEN "reading" ELSE hLoadState
    /\ UNCHANGED <<hDisk, hMem, hWrites, hSerial, hLast>>

\* initialLoadDone is set
HistoryLoaded == hLoadState \in {"done", "unusable"}

\* ensureLoaded: readFile and JSON.parse succeed; memoryStore is what
\* JSON.parse returned, which is not validated: a file holding null or {}
\* leaves a store without an editions list
LoadFromDisk ==
    /\ hLoadState = "reading"
    /\ hDisk.exists
    /\ hMem' = hDisk.editions
    /\ hLoadState' = IF hDisk.usable THEN "done" ELSE "unusable"
    /\ UNCHANGED <<hDisk, hPending, hWrites, hSerial, hRecords, hLast>>

\* ensureLoaded: the file does not exist or is unreadable, start fresh
LoadStartsFresh ==
    /\ hLoadState = "reading"
    /\ hMem' = <<>>
    /\ hLoadState' = "done"
    /\ UNCHANGED <<hDisk, hPending, hWrites, hSerial, hRecords, hLast>>

\* saveEdition after await ensureLoaded(): runs to its return without
\* suspending; persistToDisk chains one write on writeLock.  On a store
\* without an editions list compareWithPrevious throws at
\* history.editions.length: the call rejects, nothing is appended and no
\* write is chained
SaveEditionBody(id) ==
    /\ HistoryLoaded
    /\ hPending # <<>>
    /\ hPending' = Tail(hPending)
    /\ IF hLoadState = "unusable"
       THEN UNCHANGED <<hMem, hLast, hSerial, hWrites>>
       ELSE /\ hMem' = Recorded(Head(hPending), hMem, hSerial, id)
            /\ hLast' = [valid |-> TRUE,
                         edition |-> NewEdition(Head(hPending), hMem, hSerial, id),
                         before |-> hMem]
            /\ hSerial' = hSerial + 1
            /\ hWrites' = Append(hWrites, [state |-> "queued", edition |-> hSerial,
                                           data |-> <<>>, failed |-> FALSE])
    /\ UNCHANGED <<hDisk, hLoadState, hRecords>>

\* Variant: the callback runs without waiting for the previous write
ChainedOnSettledNot(k) == TRUE

\* writeLock.then(callback): the callback of write k runs once the promise
\* it was chained on, the one of write k - 1, has settled
ChainedOnSettled(k) ==
    IF k = 1 THEN TRUE ELSE hWrites[k - 1].state = "settled"

\* Write k starts: JSON.stringify(data) reads the live store
DiskWriteBegin(k) ==
    /\ hWrites[k].state = "queued"
    /\ ChainedOnSettled(k)
    /\ hWrites' = [hWrites EXCEPT ![k].state = "writing", ![k].data = hMem]
    /\ UNCHANGED <<hDisk, hMem, hLoadState, hPending, hSerial, hRecords, hLast>>

\* Variant: the temporary file is written but never renamed
DiskWriteDoneSkipsRename(k) ==
    /\ hWrites[k].state = "writing"
    /\ hWrites' = [hWrites EXCEPT ![k].state = "settled"]
    /\ UNCHANGED <<hDisk, hMem, hLoadState, hPending, hSerial, hRecords, hLast>>

\* writeFile(tmp) and rename(tmp, HISTORY_FILE) of write k succeed
DiskWriteDone(k) ==
    /\ hWrites[k].state = "writing"
    /\ hDisk' = [exists |-> TRUE, usable |-> TRUE, editions |-> hWrites[k].data]
    /\ hWrites' = [hWrites EXCEPT ![k].state = "settled"]
    /\ UNCHANGED <<hMem, hLoadState, hPending, hSerial, hRecords, hLast>>

\* Variant: the rejection of write k is not caught and stays in the chain
DiskWriteFailsBreaksChain(k) ==
    /\ hWrites[k].state = "writing"
    /\ hWrites' = [hWrites EXCEPT ![k].state = "rejected", ![k].failed = TRUE]
    /\ UNCHANGED <<hDisk, hMem, hLoadState, hPending, hSerial, hRecords, hLast>>

\* mkdir, writeFile or rename of write k throws: logged and ignored
DiskWriteFails(k) ==
    /\ hWrites[k].state = "writing"
    /\ hWrites' = [hWrites EXCEPT ![k].state = "settled", ![k].failed = TRUE]
    /\ UNCHANGED <<hDisk, hMem, hLoadState, hPending, hSerial, hRecords, hLast>>

InitHistFor(m) ==
    /\ hDisk = [exists |-> m > 0, usable |-> TRUE, editions |-> PriorHistory(m)]
    /\ hMem = <<>>
    /\ hLoadState = "none"
    /\ hPending = <<>>
    /\ hWrites = <<>>
    /\ hSerial = m + 1
    /\ hRecords = 0
    /\ hLast = NoRecord

\* The process starts on a history file whose content parses but is no
\* record with an editions list (null, {})
InitHistUnusable ==
    /\ hDisk = [exists |-> TRUE, usable |-> FALSE, editions |-> <<>>]
    /\ hMem = <<>>
    /\ hLoadState = "none"
    /\ hPending = <<>>
    /\ hWrites = <<>>
    /\ hSerial = 1
    /\ hRecords = 0
    /\ hLast = NoRecord

InitHist == (\E m \in 0..MAX_EDITIONS : InitHistFor(m)) \/ InitHistUnusable

IdleHist == InitHistFor(0)

----------------------------------------------------------------------------
(* Narrative detection: unnamed/part_012 and src/lib/ai/detector.ts        *)

\* The two detectNarratives sources of the repository
DetectVariants == {"part_012", "detector_ts"}

Sig(id, source, category, strength) ==
    [id |-> id, source |-> source, category |-> category, strength |-> strength]

\* Signal lists passed to detectNarratives
DetectInputs ==
    { <<>>,
      <<Sig(1, "market", "Trending Token", 80)>>,
      <<Sig(1, "onchain", "DeFi TVL", 70), Sig(2, "github", "Commits", 60)>>,
      <<Sig(1, "market", "Trending Token", 80), Sig(2, "github", "Commits", 60),
        Sig(3, "social", "KOL Signal", 40), Sig(4, "onchain", "Whale Activity", 90),
        Sig(5, "onchain", "NFT Floor Price", 30)>> }

\* One element of an entry's supportingSignals: a signal id, given as a
\* string or as an object with an id only (context FALSE), or an object
\* with id and context
Sup(id, context) == [id |-> id, context |-> context]

\* The category field of an entry: missing, a NarrativeCategory, or a name
\* that every object inherits from Object.prototype
EntryCategories == {"absent", "DeFi", "constructor"}

\* Keys for which FALLBACK_IDEAS[cat] and CATEGORY_SOLANA_FEATURES[cat] read
\* an inherited property, which is truthy and has no map method
InheritedKeys == {"constructor"}

\* One entry of the response's narratives array
Entry(hasName, category, supporting) ==
    [hasName |-> hasName, category |-> category, supporting |-> supporting]

\* A model response: optional code fence around a body that is no JSON
\* ("garbage"), the JSON value null, a JSON primitive, or a JSON object
\* whose narratives field is missing, not an array, or an array.  insights
\* and signalContexts are the ids with a non-empty text in the object's
\* topSignalInsights and signalContexts fields
Resp(fenced, kind, shape, items) ==
    [fenced |-> fenced, kind |-> kind, shape |-> shape, items |-> items,
     insights |-> {}, signalContexts |-> {}]

WithContexts(resp, insights, signalContexts) ==
    [resp EXCEPT !.insights = insights, !.signalContexts = signalContexts]

ModelResponses ==
    { Resp(FALSE, "garbage", "missing", <<>>),
      Resp(TRUE,  "garbage", "missing", <<>>),
      Resp(FALSE, "null", "missing", <<>>),
      Resp(FALSE, "primitive", "missing", <<>>),
      WithContexts(Resp(FALSE, "object", "missing", <<>>), {1}, {}),
      Resp(FALSE, "object", "notArray", <<>>),
      Resp(FALSE, "object", "array", <<>>),
      Resp(TRUE,  "object", "array", <<Entry(TRUE, "DeFi", <<Sup(1, TRUE)>>)>>),
      WithContexts(
          Resp(FALSE, "object", "array",
               <<Entry(TRUE, "absent", <<Sup(2, FALSE), Sup(1, FALSE)>>),
                 Entry(TRUE, "DeFi", <<>>)>>),
          {3}, {2}),
      Resp(FALSE, "object", "array",
           <<Entry(TRUE, "DeFi", <<Sup(1, TRUE)>>), Entry(FALSE, "absent", <<>>)>>),
      WithContexts(
          Resp(FALSE, "object", "array",
               <<Entry(TRUE, "constructor", <<Sup(1, TRUE)>>),
                 Entry(TRUE, "DeFi", <<Sup(2, FALSE)>>)>>),
          {2}, {}) }

\* The text handed to JSON.parse: jsonContent.match(/```(?:json)?\s*([\s\S]*?)```/)
\* replaces a fenced content by what is between the fences
StripFenceNot(resp) == resp

StripFence(resp) == [resp EXCEPT !.fenced = FALSE]

\* JSON.parse(text) returns (TRUE) or throws (FALSE): a body still wrapped in
\* a fence is no JSON
JsonParses(text) == ~text.fenced /\ text.kind # "garbage"

\* Most entries in the narratives array of a model response
MaxNarratives == 2

FALLBACK_TOP_CATEGORIES == 3
FALLBACK_TOP_SIGNALS == 8

\* s.category?.toLowerCase().includes(word), for the three words
\* buildFallbackNarratives looks for and the categories the collectors
\* emit: of those, the ones listed contain the word, no other does
CategoryIncludes(category, word) ==
    CASE word = "defi" -> category \in {"DeFi", "DeFi TVL", "DeFi Protocol", "DeFi Category"}
      [] word = "tvl"  -> category \in {"DeFi TVL", "TVL Movement"}
      [] word = "nft"  -> category \in {"NFT Floor Price", "NFT Collection"}
      [] OTHER -> FALSE

\* buildFallbackNarratives: source and category to narrative category
FallbackCategory(sig) ==
    IF \/ sig.source \in {"market", "defi-llama"}
       \/ CategoryIncludes(sig.category, "defi")
       \/ CategoryIncludes(sig.category, "tvl")
    THEN "DeFi"
    ELSE IF sig.source = "github" THEN "Developer Tooling"
    ELSE IF CategoryIncludes(sig.category, "nft") \/ sig.source = "social"
    THEN "NFT & Gaming"
    ELSE "Infrastructure"

\* Keys of categoryMap in insertion order
RECURSIVE FallbackCategories(_)
FallbackCategories(signals) ==
    IF signals = <<>> THEN <<>>
    ELSE LET front == FallbackCategories(SubSeq(signals, 1, Len(signals) - 1))
             cat   == FallbackCategory(signals[Len(signals)])
         IN  IF cat \in Range(front) THEN front ELSE Append(front, cat)

SignalsOfCategory(signals, cat) ==
    SelectSeq(signals, LAMBDA x : FallbackCategory(x) = cat)

\* Object.entries(categoryMap).sort((a, b) => b[1].length - a[1].length): stable
RECURSIVE InsertByCount(_, _, _)
InsertByCount(cat, sorted, signals) ==
    IF sorted = <<>> THEN <<cat>>
    ELSE IF Len(SignalsOfCategory(signals, sorted[1]))
              >= Len(SignalsOfCategory(signals, cat))
         THEN <<sorted[1]>> \o InsertByCount(cat, Tail(sorted), signals)
         ELSE <<cat>> \o sorted

RECURSIVE SortByCount(_, _)
SortByCount(cats, signals) ==
    IF cats = <<>> THEN <<>>
    ELSE InsertByCount(cats[Len(cats)],
                       SortByCount(SubSeq(cats, 1, Len(cats) - 1), signals), signals)

\* Strengths are kept in units of 1/StrengthScale, so that the mean of up
\* to six integer strengths is exact
StrengthScale == 60

RECURSIVE SumStrength(_)
\* signals.reduce((sum, s) => sum + s.strength, 0)
SumStrength(signals) ==
    IF signals = <<>> THEN 0 ELSE signals[1].strength + SumStrength(Tail(signals))

\* new Set(signals.map(s => s.source))
SourcesOf(signals) == { signals[i].source : i \in 1..Len(signals) }

\* Variant: no bonus for a second and further source
clusterStrengthNoBonus(signals) ==
    IF Len(signals) = 0 THEN 0
    ELSE Min(100 * StrengthScale, (SumStrength(signals) * StrengthScale) \div Len(signals))

\* clusterStrength(signals) of src/lib/collectors/aggregator.ts, in units of
\* 1/StrengthScale
clusterStrength(signals) ==
    IF Len(signals) = 0 THEN 0
    ELSE Min(100 * StrengthScale,
             (SumStrength(signals) * StrengthScale) \div Len(signals)
                 + (Cardinality(SourcesOf(signals)) - 1) * 10 * StrengthScale)

\* Math.round(sum / n) for sum >= 0: to the nearest integer, halves upwards
MathRound(sum, n) == (2 * sum + n) \div (2 * n)

\* avgStrength of buildFallbackNarratives: the rounded mean strength of the
\* narrative's signals, 50 when it has none; in units of 1/StrengthScale
FallbackStrength(signals) ==
    IF Len(signals) > 0
    THEN MathRound(SumStrength(signals), Len(signals)) * StrengthScale
    ELSE 50 * StrengthScale

\* The signalStrength field of a narrative: clusterStrength of its signals
\* on the AI path, avgStrength in buildFallbackNarratives, the literal 65 in
\* getDefaultNarratives
SignalStrengthFor(origin, signals) ==
    CASE origin = "ai"       -> clusterStrength(signals)
      [] origin = "fallback" -> FallbackStrength(signals)
      [] origin = "default"  -> 65 * StrengthScale

NarrativeOf(origin, category, signals) ==
    [origin |-> origin, category |-> category,
     signals |-> [i \in 1..Len(signals) |-> signals[i].id],
     signalStrength |-> SignalStrengthFor(origin, signals)]

\* Variant: no minimal narrative is pushed when no category was found
buildFallbackNarrativesNoMinimal(signals) ==
    LET top == Take(SortByCount(FallbackCategories(signals), signals),
                    FALLBACK_TOP_CATEGORIES)
    IN  [kind |-> "fallback",
         narratives |-> [i \in 1..Len(top) |->
             NarrativeOf("fallback", top[i],
                 Take(SortByStrengthDesc(SignalsOfCategory(signals, top[i])),
                      FALLBACK_TOP_SIGNALS))]]

\* buildFallbackNarratives(signals, reason) of unnamed/part_012
buildFallbackNarratives(signals) ==
    LET top  == Take(SortByCount(FallbackCategories(signals), signals),
                     FALLBACK_TOP_CATEGORIES)
        cats == IF Len(top) = 0 THEN <<"DeFi">> ELSE top
    IN  [kind |-> "fallback",
         narratives |-> [i \in 1..Len(cats) |->
             NarrativeOf("fallback", cats[i],
                 Take(SortByStrengthDesc(SignalsOfCategory(signals, cats[i])),
                      FALLBACK_TOP_SIGNALS))]]

\* getDefaultNarratives() of src/lib/ai/detector.ts
getDefaultNarratives ==
    [kind |-> "default", narratives |-> <<NarrativeOf("default", "DeFi", <<>>)>>]

\* What the run returns when the AI path is given up
FallbackResult(variant, signals) ==
    IF variant = "part_012" THEN buildFallbackNarratives(signals)
    ELSE getDefaultNarratives

\* The statements after the parse throw a TypeError: parsed is null, the
\* narratives field is no array, or an entry has no name (generateSlug)
TransformThrows(parsed) ==
    \/ parsed.kind = "null"
    \/ parsed.shape = "notArray"
    \/ \E i \in 1..Len(parsed.items) : ~parsed.items[i].hasName

\* supportingSignals.map(s => typeof s === 'string' ? s : s.id)
SignalIdsOf(entry) == { entry.supporting[k].id : k \in 1..Len(entry.supporting) }

\* n.category || 'Other'
CategoryOf(entry) == IF entry.category = "absent" THEN "Other" ELSE entry.category

\* (parsed.narratives || []).map(...): one Narrative per entry, with the
\* entry's category and the input signals whose id the entry lists
TransformNarratives(parsed, signals) ==
    [i \in 1..Len(parsed.items) |->
        NarrativeOf("ai", CategoryOf(parsed.items[i]),
            SelectSeq(signals, LAMBDA x : x.id \in SignalIdsOf(parsed.items[i])))]

\* unnamed/part_012: FALLBACK_IDEAS[cat] || FALLBACK_IDEAS['DeFi'] reads an
\* inherited property for some narrative and templateIdeas.map throws
TemplateIdeasThrow(narratives) ==
    \E i \in 1..Len(narratives) : narratives[i].category \in InheritedKeys

NoResult == [kind |-> "none", narratives |-> <<>>]
NoResponse == [arrived |-> FALSE, content |-> Resp(FALSE, "garbage", "missing", <<>>)]

\* detectNarratives up to its first await
DetectStart(signals, prevTitles) ==
    /\ dPc = "idle"
    /\ dSignals' = signals
    /\ dPrevTitles' = prevTitles
    /\ IF Len(signals) = 0
       THEN /\ dPc' = "done"
            /\ dResult' = FallbackResult(dVariant, <<>>)
            /\ UNCHANGED <<dRoutes, dTimer>>
       ELSE /\ dPc' = "awaitFirst"
            /\ dRoutes' = Append(dRoutes, "reasoning")
            /\ dTimer' = IF dVariant = "part_012" THEN "armed" ELSE "unset"
            /\ UNCHANGED dResult
    /\ UNCHANGED <<dVariant, dFirst, dRepair, dAbandoned, dContexts, dDiscarded>>
    /\ UNCHANGED <<dIdeas, varsHist>>

\* The keys of globalContexts with a non-empty text: those of
\* parsed.topSignalInsights, of parsed.signalContexts (Object.assign) and of
\* the supportingSignals objects that carry id and context
GlobalContexts(parsed) ==
    parsed.insights \cup parsed.signalContexts \cup
        UNION { { parsed.items[i].supporting[k].id :
                    k \in { j \in 1..Len(parsed.items[i].supporting) :
                               parsed.items[i].supporting[j].context } } :
                i \in 1..Len(parsed.items) }

\* for (const signal of signals) if (globalContexts[signal.id])
\* signal.aiContext = ...: the input signals, listed by a narrative or not,
\* for which globalContexts holds a text
AppliedContexts(parsed, signals) ==
    { signals[i].id : i \in 1..Len(signals) } \cap GlobalContexts(parsed)

\* A generateIdeasForNarrative call: it awaits getRecentIdeaTitles
\* ("titles"), the generation pass ("generating"), the critique pass
\* ("critiquing"), has returned its ideas ("returned") or has rejected
\* ("rejected").  generation and critique hold the answer each writing
\* request got, ideas what the map callback of detectNarratives puts in the
\* narrative
IdeaCall(phase, generation, critique, ideas) ==
    [phase |-> phase, generation |-> generation, critique |-> critique, ideas |-> ideas]

\* What a routeToModel('writing') request of the generator comes to: the
\* call rejects; the content is no JSON, or the JSON value null, so that
\* JSON.parse or the read of .ideas throws ("unparsable"); an object with a
\* non-empty array of idea objects ("ideas"); an object whose ideas are
\* missing or empty ("noIdeas"); an object whose ideas are kept but cannot
\* be mapped: a string, or an array holding null ("unmappable")
WritingAnswers == {"rejects", "unparsable", "ideas", "noIdeas", "unmappable"}

\* Variant: a failure inside the generator yields no idea
ReturnedIdeasNoDefault(generation, critique) ==
    IF generation \in {"rejects", "unparsable"} THEN <<>>
    ELSE LET kept == IF critique \in {"ideas", "unmappable"} THEN critique ELSE generation
         IN  CASE kept = "unmappable" -> <<>>
               [] kept = "noIdeas"    -> <<>>
               [] kept = "ideas"      ->
                      IF critique = "ideas" THEN <<"refined">> ELSE <<"generated">>

\* What generateIdeasForNarrative returns once its requests have settled.
\* A failed generation request or answer ends in the outer catch, which
\* returns the single default idea.  Otherwise ideas = parsed.ideas || [];
\* the critique replaces them only when critiqueParsed.ideas?.length > 0,
\* and its own failure is caught with the ideas of the first pass kept;
\* then mapIdeas(ideas) is returned, or the default idea when it throws
ReturnedIdeas(generation, critique) ==
    IF generation \in {"rejects", "unparsable"} THEN <<"default">>
    ELSE LET kept == IF critique \in {"ideas", "unmappable"} THEN critique ELSE generation
         IN  CASE kept = "unmappable" -> <<"default">>
               [] kept = "noIdeas"    -> <<>>
               [] kept = "ideas"      ->
                      IF critique = "ideas" THEN <<"refined">> ELSE <<"generated">>

\* The generator rejected outside its try block: the callback's catch
\* returns the narrative as it is, with ideas: []
RejectedCall == IdeaCall("rejected", "notSent", "notSent", <<>>)

ReturnedCall(generation, critique) ==
    IdeaCall("returned", generation, critique, ReturnedIdeas(generation, critique))

CallsIn(calls, phase) == {i \in 1..Len(calls) : calls[i].phase = phase}

\* One routeToModel('writing') request per call
WritingRequests(n) == [j \in 1..n |-> "writing"]

\* getCategoryFeatures(narrative.category), called once the titles are
\* known and before the try block, throws at features.map
CategoryFeaturesThrow(narrative) == narrative.category \in InheritedKeys

\* The call for a narrative once it holds the titles: it rejects at
\* getCategoryFeatures or sends its generation request
WithTitles(narrative) ==
    IF CategoryFeaturesThrow(narrative) THEN RejectedCall
    ELSE IdeaCall("generating", "pending", "notSent", <<>>)

\* narratives.map(async narrative => generateIdeasForNarrative(...)) up to
\* the first await of every call: a call rejects at once (a signal of the
\* narrative without a description), goes on with the client's titles or
\* those of the loaded history, or awaits the history
StartedCalls(narratives, titlesKnown) ==
    { calls \in [1..Len(narratives) ->
                    {RejectedCall, IdeaCall("generating", "pending", "notSent", <<>>),
                     IdeaCall("titles", "notSent", "notSent", <<>>)}] :
        \A i \in 1..Len(narratives) :
            \/ calls[i] = RejectedCall
            \/ calls[i] = IF titlesKnown THEN WithTitles(narratives[i])
                          ELSE IdeaCall("titles", "notSent", "notSent", <<>>) }

\* Promise.all over the calls: detectNarratives returns once every call has
\* settled
PcAfter(calls) ==
    IF \A i \in 1..Len(calls) : calls[i].phase \in {"returned", "rejected"}
    THEN "done" ELSE "awaitIdeas"

\* The calls are started; the first getRecentIdeaTitles starts the read of
\* the history (ensureLoaded)
StartIdeas(narratives) ==
    \E calls \in StartedCalls(narratives, dPrevTitles \/ HistoryLoaded) :
        /\ dIdeas' = calls
        /\ dRoutes' = dRoutes \o WritingRequests(Cardinality(CallsIn(calls, "generating")))
        /\ dPc' = PcAfter(calls)
        /\ hLoadState' = IF hLoadState = "none" /\ CallsIn(calls, "titles") # {}
                         THEN "reading" ELSE hLoadState
        /\ UNCHANGED <<hDisk, hMem, hPending, hWrites, hSerial, hRecords, hLast>>

\* The code after a successful JSON.parse, up to the next await.  A throw
\* in the transform leaves the input signals untouched.  detector.ts then
\* starts the idea generators; unnamed/part_012 assigns the template ideas,
\* and when that throws, after the contexts were written on the input
\* signals, its catch returns the fallback set built from those signals
AfterParse(parsed) ==
    IF TransformThrows(parsed)
    THEN /\ dPc' = "done"
         /\ dResult' = FallbackResult(dVariant, dSignals)
         /\ UNCHANGED <<dContexts, dIdeas, dRoutes, varsHist>>
    ELSE IF dVariant = "detector_ts"
    THEN /\ dResult' = [kind |-> "ai",
                        narratives |-> TransformNarratives(parsed, dSignals)]
         /\ dContexts' = AppliedContexts(parsed, dSignals)
         /\ StartIdeas(TransformNarratives(parsed, dSignals))
    ELSE /\ dPc' = "done"
         /\ dResult' = IF TemplateIdeasThrow(TransformNarratives(parsed, dSignals))
                       THEN FallbackResult(dVariant, dSignals)
                       ELSE [kind |-> "ai",
                             narratives |-> TransformNarratives(parsed, dSignals)]
         /\ dContexts' = AppliedContexts(parsed, dSignals)
         /\ UNCHANGED <<dIdeas, dRoutes, varsHist>>

\* The first routeToModel('reasoning') call resolves with resp
FirstResponse(resp) ==
    /\ dPc = "awaitFirst"
    /\ dFirst' = [arrived |-> TRUE, content |-> resp]
    /\ IF JsonParses(StripFence(resp))
       THEN AfterParse(StripFence(resp))
       ELSE /\ dPc' = "awaitRepair"
            /\ dRoutes' = Append(dRoutes, "reasoning")
            /\ UNCHANGED <<dResult, dContexts, dIdeas, varsHist>>
    /\ UNCHANGED <<dVariant, dSignals, dRepair, dTimer, dAbandoned, dDiscarded, dPrevTitles>>

\* The first routeToModel('reasoning') call rejects
FirstRejected ==
    /\ dPc = "awaitFirst"
    /\ dPc' = "done"
    /\ dResult' = FallbackResult(dVariant, dSignals)
    /\ UNCHANGED <<dVariant, dSignals, dRoutes, dFirst, dRepair, dTimer, dAbandoned, dContexts, dDiscarded>>
    /\ UNCHANGED <<dIdeas, dPrevTitles, varsHist>>

\* setTimeout fires while the first call is pending: the race rejects
DetectTimeout ==
    /\ dPc = "awaitFirst"
    /\ dTimer = "armed"
    /\ dTimer' = "fired"
    /\ dAbandoned' = TRUE
    /\ dPc' = "done"
    /\ dResult' = FallbackResult(dVariant, dSignals)
    /\ UNCHANGED <<dVariant, dSignals, dRoutes, dFirst, dRepair, dContexts, dDiscarded>>
    /\ UNCHANGED <<dIdeas, dPrevTitles, varsHist>>

\* setTimeout fires after the race was already won by the first call: the
\* rejection of timeoutPromise is not observed by the rest of the run
TimerFiresLate ==
    /\ dTimer = "armed"
    /\ dPc # "awaitFirst"
    /\ dTimer' = "fired"
    /\ UNCHANGED <<dVariant, dSignals, dPc, dRoutes, dFirst, dRepair, dAbandoned, dResult, dContexts, dDiscarded>>
    /\ UNCHANGED <<dIdeas, dPrevTitles, varsHist>>

LateResponseApplied ==
    /\ dAbandoned
    /\ dAbandoned' = FALSE
    /\ dDiscarded' = TRUE
    /\ dContexts' = { dSignals[i].id : i \in 1..Len(dSignals) }
    /\ dResult' = [kind |-> "ai", narratives |-> <<NarrativeOf("ai", "Other", dSignals)>>]
    /\ UNCHANGED <<dVariant, dSignals, dPc, dRoutes, dFirst, dRepair, dTimer>>
    /\ UNCHANGED <<dIdeas, dPrevTitles, varsHist>>

\* The abandoned first call settles after the timeout won: nobody listens
LateResponse ==
    /\ dAbandoned
    /\ dAbandoned' = FALSE
    /\ dDiscarded' = TRUE
    /\ UNCHANGED <<dVariant, dSignals, dPc, dRoutes, dFirst, dRepair, dTimer, dResult, dContexts>>
    /\ UNCHANGED <<dIdeas, dPrevTitles, varsHist>>

\* The repair routeToModel('reasoning') call resolves with resp
RepairResponse(resp) ==
    /\ dPc = "awaitRepair"
    /\ IF JsonParses(StripFence(resp))
       THEN /\ dRepair' = "parsed"
            /\ AfterParse(StripFence(resp))
       ELSE /\ dRepair' = "unparsable"
            /\ dPc' = "done"
            /\ dResult' = FallbackResult(dVariant, dSignals)
            /\ UNCHANGED <<dContexts, dRoutes, dIdeas, varsHist>>
    /\ UNCHANGED <<dVariant, dSignals, dFirst, dTimer, dAbandoned, dDiscarded, dPrevTitles>>

\* The repair routeToModel('reasoning') call rejects
RepairRejected ==
    /\ dPc = "awaitRepair"
    /\ dRepair' = "rejected"
    /\ dPc' = "done"
    /\ dResult' = FallbackResult(dVariant, dSignals)
    /\ UNCHANGED <<dVariant, dSignals, dRoutes, dFirst, dTimer, dAbandoned, dContexts, dDiscarded>>
    /\ UNCHANGED <<dIdeas, dPrevTitles, varsHist>>

\* ensureLoaded settles while calls await getRecentIdeaTitles (a throw of
\* getRecentIdeaTitles on a store without editions is caught): each of
\* them rejects at getCategoryFeatures or goes on to its generation request
IdeasTitlesLoaded(fresh) ==
    /\ dPc = "awaitIdeas"
    /\ CallsIn(dIdeas, "titles") # {}
    /\ IF fresh THEN LoadStartsFresh ELSE LoadFromDisk
    /\ dIdeas' = [i \in 1..Len(dIdeas) |->
                     IF dIdeas[i].phase = "titles"
                     THEN WithTitles(dResult.narratives[i]) ELSE dIdeas[i]]
    /\ dRoutes' = dRoutes \o
                     WritingRequests(Cardinality(CallsIn(dIdeas', "generating"))
                                         - Cardinality(CallsIn(dIdeas, "generating")))
    /\ dPc' = PcAfter(dIdeas')
    /\ UNCHANGED <<dVariant, dSignals, dFirst, dRepair, dTimer, dAbandoned, dResult,
                   dContexts, dDiscarded, dPrevTitles>>

\* The generation request of call i settles: an answer that parses to a
\* value whose ideas can be read is followed by the critique request, a
\* rejection or any other answer by the generator's default idea
GenerationAnswered(i, answer) ==
    /\ dPc = "awaitIdeas"
    /\ i \in CallsIn(dIdeas, "generating")
    /\ answer \in WritingAnswers
    /\ IF answer \in {"rejects", "unparsable"}
       THEN /\ dIdeas' = [dIdeas EXCEPT ![i] = ReturnedCall(answer, "notSent")]
            /\ dPc' = PcAfter(dIdeas')
            /\ UNCHANGED dRoutes
       ELSE /\ dIdeas' = [dIdeas EXCEPT ![i] = IdeaCall("critiquing", answer, "pending", <<>>)]
            /\ dRoutes' = Append(dRoutes, "writing")
            /\ UNCHANGED dPc
    /\ UNCHANGED <<dVariant, dSignals, dFirst, dRepair, dTimer, dAbandoned, dResult,
                   dContexts, dDiscarded, dPrevTitles, varsHist>>

\* The critique request of call i settles and the call returns
CritiqueAnswered(i, answer) ==
    /\ dPc = "awaitIdeas"
    /\ i \in CallsIn(dIdeas, "critiquing")
    /\ answer \in WritingAnswers
    /\ dIdeas' = [dIdeas EXCEPT ![i] = ReturnedCall(dIdeas[i].generation, answer)]
    /\ dPc' = PcAfter(dIdeas')
    /\ UNCHANGED <<dVariant, dSignals, dRoutes, dFirst, dRepair, dTimer, dAbandoned,
                   dResult, dContexts, dDiscarded, dPrevTitles, varsHist>>

InitDetectFor(variant) ==
    /\ dVariant = variant
    /\ dSignals = <<>>
    /\ dPc = "idle"
    /\ dRoutes = <<>>
    /\ dFirst = NoResponse
    /\ dRepair = "none"
    /\ dTimer = "unset"
    /\ dAbandoned = FALSE
    /\ dResult = NoResult
    /\ dContexts = {}
    /\ dDiscarded = FALSE
    /\ dIdeas = <<>>
    /\ dPrevTitles = FALSE

InitDetect == \E variant \in DetectVariants : InitDetectFor(variant)

IdleDetect == InitDetectFor("part_012")

----------------------------------------------------------------------------
(* Signal aggregation: src/lib/collectors/aggregator.ts, src/lib/cache.ts  *)

\* CACHE_TTL.SIGNALS
CACHE_TTL_SIGNALS == 300000

\* Collectors run by one collection (the code runs eight)
NumCollectors == 3
\* collectAllSignals calls in one behaviour
MaxCollects == 2

Collectors == 1..NumCollectors

\* forceRefresh option of a call
ForceOptions == BOOLEAN

\* Time the collectors take to settle
JoinDelays == {0, 1000}

\* Time passed between two calls
AggTimeSteps == {0, CACHE_TTL_SIGNALS, CACHE_TTL_SIGNALS + 1}

ASig(id, source, category, strength, badge) ==
    [id |-> id, source |-> source, category |-> category,
     strength |-> strength, badge |-> badge]

\* sourceNames[i]
SourceName(i) == <<"market", "github", "onchain">>[((i - 1) % 3) + 1]

\* Signals a collector may produce; badge "" is a description without a
\* leading emoji
CollectorSignals(i) ==
    <<ASig(10 * i + 1, SourceName(i), "Trending Token", 30 * (((i - 1) % 3) + 1), ""),
      ASig(10 * i + 2, SourceName(i), "Unlisted", 60, "emoji")>>

\* A fulfilled value: a CollectorResult ("result", .data holds the list) or
\* a bare array ("array")
Returned(shape, data) == [shape |-> shape, data |-> data]

NothingReturned == Returned("none", <<>>)

\* Values collector i may fulfil with
CollectorReturns(i) ==
    IF i % 3 = 1 THEN { Returned("result", <<>>), Returned("result", CollectorSignals(i)) }
    ELSE IF i % 3 = 2 THEN { Returned("array", Take(CollectorSignals(i), 1)) }
    ELSE { Returned("result", CollectorSignals(i)) }

\* const data = (result.value as any).data || result.value;
\* if (Array.isArray(data)) allSignals.push(...data)
FulfilledDataNone(value) == <<>>

FulfilledData(value) ==
    IF value.shape \in {"result", "array"} THEN value.data ELSE <<>>

\* results.forEach(...): the data of the fulfilled collectors in collector order
RECURSIVE MergeSettled(_, _, _)
MergeSettled(settled, returned, n) ==
    IF n = 0 THEN <<>>
    ELSE MergeSettled(settled, returned, n - 1)
         \o (IF settled[n] = "fulfilled" THEN FulfilledData(returned[n]) ELSE <<>>)

\* CATEGORY_BADGES[signal.category] || SOURCE_BADGES[signal.source] || ''
\* ("category": the badge of the category, "source": the badge of the source)
BadgeFor(sig) ==
    LET categoryKeys == {"Governance", "NFT Collection", "NFT Floor Price",
                         "DEX Trending", "DEX Boosted", "New Pair",
                         "Whale Activity", "Whale Movement", "KOL Signal",
                         "X Trend", "New Programs", "Validator Health",
                         "Stablecoin Supply", "DeFi TVL", "DeFi Protocol",
                         "TVL Movement", "Trending Token"}
        sourceKeys   == {"onchain", "github", "market", "social", "defi-llama",
                         "governance"}
    IN  IF sig.category \in categoryKeys THEN "category"
        ELSE IF sig.source \in sourceKeys THEN "source"
        ELSE ""

\* enrichDescription: a description that starts with an emoji is kept
enrichDescription(sig) == IF sig.badge # "" THEN sig.badge ELSE BadgeFor(sig)

enrichSignalDescriptions(signals) ==
    [i \in 1..Len(signals) |-> [signals[i] EXCEPT !.badge = enrichDescription(signals[i])]]

NoCache == [present |-> FALSE, data |-> <<>>, expiresAt |-> 0, collectedAt |-> 0]

CacheHitIgnoresExpiry(cache, t) == cache.present

\* getCached(key) returns an entry at time t: it exists and is not expired
CacheHit(cache, t) == cache.present /\ ~(t > cache.expiresAt)

NoAggResult == [kind |-> "none", data |-> <<>>, collectedAt |-> 0]

CollectStartRestamps(forceRefresh, d) ==
    /\ aPc \in {"idle", "done"}
    /\ aCalls < MaxCollects
    /\ aCalls' = aCalls + 1
    /\ aNow' = aNow + d
    /\ aForce' = forceRefresh
    /\ IF ~forceRefresh /\ CacheHit(aCache, aNow')
       THEN /\ aPc' = "done"
            /\ aResult' = [kind |-> "cached", data |-> aCache.data,
                           collectedAt |-> aNow']
            /\ aCache' = [aCache EXCEPT !.expiresAt = aNow' + CACHE_TTL_SIGNALS,
                                        !.collectedAt = aNow']
            /\ UNCHANGED <<aSettled, aReturned, aCollectedAt>>
       ELSE /\ aPc' = "collecting"
            /\ aCollectedAt' = aNow'
            /\ aSettled' = [i \in Collectors |-> "pending"]
            /\ aReturned' = [i \in Collectors |-> NothingReturned]
            /\ aResult' = NoAggResult
            /\ aCache' = IF ~forceRefresh /\ aCache.present THEN NoCache ELSE aCache

\* collectAllSignals up to its await: a cached result is returned as it is,
\* or collectedAt is taken and every collector is started
CollectStart(forceRefresh, d) ==
    /\ aPc \in {"idle", "done"}
    /\ aCalls < MaxCollects
    /\ aCalls' = aCalls + 1
    /\ aNow' = aNow + d
    /\ aForce' = forceRefresh
    /\ IF ~forceRefresh /\ CacheHit(aCache, aNow')
       THEN /\ aPc' = "done"
            /\ aResult' = [kind |-> "cached", data |-> aCache.data,
                           collectedAt |-> aCache.collectedAt]
            /\ UNCHANGED <<aCache, aSettled, aReturned, aCollectedAt>>
       ELSE /\ aPc' = "collecting"
            /\ aCollectedAt' = aNow'
            /\ aSettled' = [i \in Collectors |-> "pending"]
            /\ aReturned' = [i \in Collectors |-> NothingReturned]
            /\ aResult' = NoAggResult
            \* getCached deletes an expired entry
            /\ aCache' = IF ~forceRefresh /\ aCache.present THEN NoCache ELSE aCache

\* Collector i fulfils
CollectorFulfils(i, value) ==
    /\ aPc = "collecting"
    /\ aSettled[i] = "pending"
    /\ aSettled' = [aSettled EXCEPT ![i] = "fulfilled"]
    /\ aReturned' = [aReturned EXCEPT ![i] = value]
    /\ UNCHANGED <<aNow, aCache, aPc, aResult, aCalls, aForce, aCollectedAt>>

\* Collector i rejects
CollectorRejects(i) ==
    /\ aPc = "collecting"
    /\ aSettled[i] = "pending"
    /\ aSettled' = [aSettled EXCEPT ![i] = "rejected"]
    /\ UNCHANGED <<aNow, aCache, aPc, aReturned, aResult, aCalls, aForce, aCollectedAt>>

\* Promise.allSettled resolved d ms after the call started: merge, sort,
\* enrich, cache, return
CollectJoin(d) ==
    /\ aPc = "collecting"
    /\ aNow' = aNow + d
    /\ \A i \in Collectors : aSettled[i] \in {"fulfilled", "rejected"}
    /\ LET data == enrichSignalDescriptions(
                       SortByStrengthDesc(MergeSettled(aSettled, aReturned, NumCollectors)))
       IN  /\ aResult' = [kind |-> "fresh", data |-> data, collectedAt |-> aCollectedAt]
           /\ aCache' = [present |-> TRUE, data |-> data,
                         expiresAt |-> aNow' + CACHE_TTL_SIGNALS,
                         collectedAt |-> aCollectedAt]
    /\ aPc' = "done"
    /\ UNCHANGED <<aSettled, aReturned, aCalls, aForce, aCollectedAt>>

InitAgg ==
    /\ aNow = 0
    /\ aCache = NoCache
    /\ aPc = "idle"
    /\ aSettled = [i \in Collectors |-> "idle"]
    /\ aReturned = [i \in Collectors |-> NothingReturned]
    /\ aResult = NoAggResult
    /\ aCalls = 0
    /\ aForce = FALSE
    /\ aCollectedAt = 0

IdleAgg == InitAgg

----------------------------------------------------------------------------
(* TTL cache: src/lib/cache.ts                                             *)

varsCache == <<cNow, cStore, cLatest, cLastGet, cLastStats, cOps>>

\* Cache calls in one behaviour
MaxCacheOps == 4

\* SIGNAL_CACHE_KEY, NARRATIVE_CACHE_KEY
CacheKeys == {"all-signals", "narrative-result"}

\* Prefixes passed to invalidateCacheByPrefix
CachePrefixes == {"all-", "narr", ""}

CacheValues == {"v1", "v2"}

\* CACHE_TTL.NARRATIVES
CACHE_TTL_NARRATIVES == 900000

\* ttlMs values passed to setCache
CacheTtls == {CACHE_TTL_SIGNALS, CACHE_TTL_NARRATIVES}

\* Time passed before a cache call
CacheTimeSteps == {0, 500, CACHE_TTL_SIGNALS}

\* key.startsWith(prefix)
StartsWith(key, prefix) ==
    \/ prefix = ""
    \/ prefix = "all-" /\ key = "all-signals"
    \/ prefix = "narr" /\ key = "narrative-result"

CacheEntry(data, expiresAt, createdAt) ==
    [present |-> TRUE, data |-> data, expiresAt |-> expiresAt, createdAt |-> createdAt]

NoEntry == [present |-> FALSE, data |-> "", expiresAt |-> 0, createdAt |-> 0]

NoGet == [valid |-> FALSE, key |-> "", found |-> FALSE, data |-> "", at |-> 0]

\* What is remembered of the entry a setCache call overwrote
NothingReplaced == [present |-> FALSE, expiresAt |-> 0]

NeverSet == [live |-> FALSE, data |-> "", expiresAt |-> 0, setAt |-> 0,
             replaced |-> NothingReplaced]

NoStats == [valid |-> FALSE, at |-> 0, entries |-> 0, keys |-> {}, ages |-> <<>>]

\* The record of a setCache(key, data, ttlMs) call at time t
LatestSet(key, data, ttl, t) ==
    [live |-> TRUE, data |-> data, expiresAt |-> t + ttl, setAt |-> t,
     replaced |-> [present |-> cStore[key].present,
                   expiresAt |-> cStore[key].expiresAt]]

\* Variant: an entry that would live longer keeps its expiry time
SetCacheKeepsLongerLife(key, data, ttl, d) ==
    /\ cOps < MaxCacheOps
    /\ cOps' = cOps + 1
    /\ cNow' = cNow + d
    /\ cStore' = [cStore EXCEPT ![key] =
                     CacheEntry(data,
                                IF cStore[key].present
                                THEN Max(cStore[key].expiresAt, cNow' + ttl)
                                ELSE cNow' + ttl,
                                cNow')]
    /\ cLatest' = [cLatest EXCEPT ![key] = LatestSet(key, data, ttl, cNow')]
    /\ cLastGet' = NoGet
    /\ cLastStats' = NoStats

\* setCache(key, data, ttlMs)
SetCache(key, data, ttl, d) ==
    /\ cOps < MaxCacheOps
    /\ cOps' = cOps + 1
    /\ cNow' = cNow + d
    /\ cStore' = [cStore EXCEPT ![key] = CacheEntry(data, cNow' + ttl, cNow')]
    /\ cLatest' = [cLatest EXCEPT ![key] = LatestSet(key, data, ttl, cNow')]
    /\ cLastGet' = NoGet
    /\ cLastStats' = NoStats

\* getCached(key): an expired entry is deleted and null is returned
GetCached(key, d) ==
    /\ cOps < MaxCacheOps
    /\ cOps' = cOps + 1
    /\ cNow' = cNow + d
    /\ IF CacheHit(cStore[key], cNow')
       THEN /\ cLastGet' = [valid |-> TRUE, key |-> key, found |-> TRUE,
                            data |-> cStore[key].data, at |-> cNow']
            /\ UNCHANGED cStore
       ELSE /\ cLastGet' = [valid |-> TRUE, key |-> key, found |-> FALSE,
                            data |-> "", at |-> cNow']
            /\ cStore' = [cStore EXCEPT ![key] = NoEntry]
    /\ cLastStats' = NoStats
    /\ UNCHANGED cLatest

\* invalidateCache(key)
InvalidateCache(key, d) ==
    /\ cOps < MaxCacheOps
    /\ cOps' = cOps + 1
    /\ cNow' = cNow + d
    /\ cStore' = [cStore EXCEPT ![key] = NoEntry]
    /\ cLatest' = [cLatest EXCEPT ![key] = NeverSet]
    /\ cLastGet' = NoGet
    /\ cLastStats' = NoStats

\* invalidateCacheByPrefix(prefix)
InvalidateCacheByPrefix(prefix, d) ==
    /\ cOps < MaxCacheOps
    /\ cOps' = cOps + 1
    /\ cNow' = cNow + d
    /\ cStore' = [k \in CacheKeys |-> IF StartsWith(k, prefix) THEN NoEntry ELSE cStore[k]]
    /\ cLatest' = [k \in CacheKeys |-> IF StartsWith(k, prefix) THEN NeverSet ELSE cLatest[k]]
    /\ cLastGet' = NoGet
    /\ cLastStats' = NoStats

\* clearCache()
ClearCache(d) ==
    /\ cOps < MaxCacheOps
    /\ cOps' = cOps + 1
    /\ cNow' = cNow + d
    /\ cStore' = [k \in CacheKeys |-> NoEntry]
    /\ cLatest' = [k \in CacheKeys |-> NeverSet]
    /\ cLastGet' = NoGet
    /\ cLastStats' = NoStats

\* The keys getCacheStats leaves in the store at time t
StatsKept(t) == {k \in CacheKeys : cStore[k].present /\ ~(t > cStore[k].expiresAt)}

\* ages[key] = Math.round((now - entry.createdAt) / 1000)
StatsAges(t) == [k \in StatsKept(t) |-> MathRound(t - cStore[k].createdAt, 1000)]

\* Variant: the entries are counted before the expired ones are deleted
GetCacheStatsCountsFirst(d) ==
    /\ cOps < MaxCacheOps
    /\ cOps' = cOps + 1
    /\ cNow' = cNow + d
    /\ cStore' = [k \in CacheKeys |-> IF k \in StatsKept(cNow') THEN cStore[k] ELSE NoEntry]
    /\ cLastStats' = [valid |-> TRUE, at |-> cNow',
                      entries |-> Cardinality({k \in CacheKeys : cStore[k].present}),
                      keys |-> StatsKept(cNow'),
                      ages |-> StatsAges(cNow')]
    /\ cLastGet' = NoGet
    /\ UNCHANGED cLatest

\* getCacheStats(): expired entries are deleted while the ages are computed;
\* entries and keys are read from the store after the loop
GetCacheStats(d) ==
    /\ cOps < MaxCacheOps
    /\ cOps' = cOps + 1
    /\ cNow' = cNow + d
    /\ cStore' = [k \in CacheKeys |-> IF k \in StatsKept(cNow') THEN cStore[k] ELSE NoEntry]
    /\ cLastStats' = [valid |-> TRUE, at |-> cNow',
                      entries |-> Cardinality({k \in CacheKeys : cStore'[k].present}),
                      keys |-> {k \in CacheKeys : cStore'[k].present},
                      ages |-> StatsAges(cNow')]
    /\ cLastGet' = NoGet
    /\ UNCHANGED cLatest

InitCache ==
    /\ cNow = 0
    /\ cStore = [k \in CacheKeys |-> NoEntry]
    /\ cLatest = [k \in CacheKeys |-> NeverSet]
    /\ cLastGet = NoGet
    /\ cLastStats = NoStats
    /\ cOps = 0

IdleCache == InitCache

----------------------------------------------------------------------------
(* Route handlers: unnamed/part_001 (GET /api/narratives),                 *)
(* app/api/agent/route.ts (handleStreaming), app/api/signals/route.ts      *)

varsEntry == <<eHandler, eOpts, ePc, eLimiter, eWork, eNarrCache, eResponse, eRequests>>

\* Requests in one behaviour
MaxRequests == 3

Handlers == {"narrativesGet", "narrativesStream", "signalsGet", "regenerateIdeas"}

\* What the handler holds in previousIdeaTitles after reading the request:
\* nothing of positive length (no header or body field, one that does not
\* decode or parse, an empty array), a non-empty list of titles, or null
\* (the X-Previous-Ideas header decodes to the JSON text null)
PreviousIdeasForms == {"absent", "titles", "null"}

\* refresh=true, X-Previous-Ideas / previousIdeaTitles non-empty, the form of body.signals
Opts(refresh, dedup, clientSignals) ==
    [refresh |-> refresh, dedup |-> dedup, clientSignals |-> clientSignals,
     previous |-> IF dedup THEN "titles" ELSE "absent"]

\* GET /api/narratives with X-Previous-Ideas: JSON.parse(atob(header)) is null
NullTitlesOpts(refresh) ==
    [Opts(refresh, FALSE, "absent") EXCEPT !.previous = "null"]

\* Inputs a handler reads: only the streaming POST reads signals from the body
\* body.signals of the streaming POST: missing (also: GET, invalid body),
\* an empty array, or a non-empty array
ClientSignalForms == {"absent", "empty", "list"}

OptsOf(handler) ==
    IF handler = "narrativesStream"
    THEN { Opts(r, d, c) : r \in BOOLEAN, d \in BOOLEAN, c \in ClientSignalForms }
    ELSE IF handler = "narrativesGet"
    THEN { Opts(r, d, "absent") : r \in BOOLEAN, d \in BOOLEAN }
             \cup { NullTitlesOpts(r) : r \in BOOLEAN }
    ELSE { Opts(r, FALSE, "absent") : r \in BOOLEAN }

\* Time passed before a request arrives
EntryTimeSteps == {0, 2000, NARRATIVES_WINDOW_MS + 1}

\* collects: collectAllSignals calls; collectors: the collectors were run;
\* signalCache: accesses to the 'all-signals' cache entry; detectOn: the list
\* detectNarratives was given; narratives: what detectNarratives returned;
\* saves: saveEdition calls; editions: editions put at the head of the
\* history (none when the saveEdition call rejected)
NoWork == [collects |-> 0, detects |-> 0, saves |-> 0, cacheSets |-> 0,
           collectors |-> FALSE, signalCache |-> {}, detectOn |-> "none",
           narratives |-> "none", editions |-> 0]

\* detectNarratives returns the narratives built from the model response or,
\* from its catch, the fallback set
DetectResults == {"ai", "fallback"}

\* collectAllSignals({ forceRefresh }) is called: it reads the cache unless
\* forceRefresh
CollectWork(opts) ==
    [NoWork EXCEPT !.collects = 1,
                   !.signalCache = IF opts.refresh THEN {} ELSE {"read"}]

\* Variant: any signals field of the body is used, also an empty array
UsesClientSignalsIfPresent(opts) == opts.clientSignals # "absent"

\* clientSignals && clientSignals.length > 0
UsesClientSignals(opts) == opts.clientSignals = "list"

NoNarrCache == [present |-> FALSE, expiresAt |-> 0]

\* GET /api/narratives up to its first await.  previousIdeaTitles.length
\* is read before checkRateLimit and outside every try: on null the handler
\* rejects with a TypeError, the limiter is not called and no response is
\* built
NarrativesGet(opts, d) ==
    /\ ePc \in {"idle", "done"}
    /\ eRequests < MaxRequests
    /\ eRequests' = eRequests + 1
    /\ eHandler' = "narrativesGet"
    /\ eOpts' = opts
    /\ IF opts.previous = "null"
       THEN /\ now' = now + d
            /\ UNCHANGED <<lastCleanup, rlStore, rlConfig, rlAccepted, rlLast, rlDenied, rlCalls>>
            /\ eLimiter' = "notCalled"
            /\ eResponse' = "rejected"
            /\ ePc' = "done"
            /\ eWork' = NoWork
            /\ UNCHANGED eNarrCache
       ELSE /\ CheckRateLimit("narratives", d)
            /\ IF ~rlLast'.allowed
               THEN /\ eLimiter' = "denied"
                    /\ eResponse' = "429"
                    /\ ePc' = "done"
                    /\ eWork' = NoWork
                    /\ UNCHANGED eNarrCache
               ELSE /\ eLimiter' = "allowed"
                    /\ IF ~opts.refresh /\ ~opts.dedup /\ CacheHit(eNarrCache, now')
                       THEN /\ eResponse' = "cached"
                            /\ ePc' = "done"
                            /\ eWork' = NoWork
                            /\ UNCHANGED eNarrCache
                       ELSE /\ eResponse' = "none"
                            /\ ePc' = "collecting"
                            /\ eWork' = CollectWork(opts)
                            \* getCached deletes the expired entry
                            /\ eNarrCache' = IF ~opts.refresh /\ ~opts.dedup
                                             THEN NoNarrCache ELSE eNarrCache

\* GET /api/signals up to its first await
SignalsGet(opts, d) ==
    /\ ePc \in {"idle", "done"}
    /\ eRequests < MaxRequests
    /\ eRequests' = eRequests + 1
    /\ eHandler' = "signalsGet"
    /\ eOpts' = opts
    /\ CheckRateLimit("signals", d)
    /\ IF ~rlLast'.allowed
       THEN /\ eLimiter' = "denied"
            /\ eResponse' = "429"
            /\ ePc' = "done"
            /\ eWork' = NoWork
       ELSE /\ eLimiter' = "allowed"
            /\ eResponse' = "none"
            /\ ePc' = "collecting"
            /\ eWork' = CollectWork(opts)
    /\ UNCHANGED eNarrCache

\* handleStreaming and the stream's start() up to its first await: no
\* checkRateLimit call is made
NarrativesStream(opts, d) ==
    /\ ePc \in {"idle", "done"}
    /\ eRequests < MaxRequests
    /\ eRequests' = eRequests + 1
    /\ eHandler' = "narrativesStream"
    /\ eOpts' = opts
    /\ now' = now + d
    /\ UNCHANGED <<lastCleanup, rlStore, rlConfig, rlAccepted, rlLast, rlDenied, rlCalls>>
    /\ eLimiter' = "notCalled"
    /\ eResponse' = "none"
    /\ IF UsesClientSignals(opts)
       THEN /\ ePc' = "detecting"
            /\ eWork' = [NoWork EXCEPT !.detects = 1, !.detectOn = "client"]
       ELSE /\ ePc' = "collecting"
            /\ eWork' = CollectWork(opts)
    /\ UNCHANGED eNarrCache

\* POST /api/regenerate-ideas up to its first await: the limiter is asked
\* with the key and the config of the narratives route
RegenerateIdeas(d) ==
    /\ ePc \in {"idle", "done"}
    /\ eRequests < MaxRequests
    /\ eRequests' = eRequests + 1
    /\ eHandler' = "regenerateIdeas"
    /\ eOpts' = Opts(FALSE, FALSE, "absent")
    /\ CheckRateLimit("narratives", d)
    /\ eWork' = NoWork
    /\ IF ~rlLast'.allowed
       THEN /\ eLimiter' = "denied"
            /\ eResponse' = "429"
            /\ ePc' = "done"
       ELSE /\ eLimiter' = "allowed"
            /\ eResponse' = "none"
            /\ ePc' = "regenerating"
    /\ UNCHANGED eNarrCache

\* POST /api/regenerate-ideas answers: 400 for a body without narratives,
\* 500 for a body that is no JSON, else the narratives with the ideas of
\* generateIdeasForNarrative; it collects, detects, saves and caches nothing
EntryRegenerated(status) ==
    /\ ePc = "regenerating"
    /\ status \in {"ok", "400", "500"}
    /\ ePc' = "done"
    /\ eResponse' = status
    /\ UNCHANGED <<eHandler, eOpts, eLimiter, eWork, eNarrCache, eRequests, varsRL>>

\* getCacheStats(): every expired entry is deleted from the store
StatsSweep(cache, t) == IF cache.present /\ t > cache.expiresAt THEN NoNarrCache ELSE cache

\* collectAllSignals resolved, from the cache (hit) or after running the
\* collectors and caching their merged result; GET /api/signals calls
\* getCacheStats and answers, the others call detectNarratives with the
\* collected list
EntryCollected(hit) ==
    /\ ePc = "collecting"
    /\ hit => "read" \in eWork.signalCache
    /\ LET collected == [eWork EXCEPT
               !.collectors = ~hit,
               !.signalCache = IF hit THEN @ ELSE @ \cup {"write"}]
       IN  IF eHandler = "signalsGet"
           THEN /\ ePc' = "done"
                /\ eResponse' = "ok"
                /\ eWork' = collected
                /\ eNarrCache' = StatsSweep(eNarrCache, now)
           ELSE /\ ePc' = "detecting"
                /\ eWork' = [collected EXCEPT !.detects = 1, !.detectOn = "collected"]
                /\ UNCHANGED <<eResponse, eNarrCache>>
    /\ UNCHANGED <<eHandler, eOpts, eLimiter, eRequests, varsRL>>

\* detectNarratives resolved: saveEdition is called with its narratives
EntryDetected(result) ==
    /\ ePc = "detecting"
    /\ result \in DetectResults
    /\ ePc' = "saving"
    /\ eWork' = [eWork EXCEPT !.saves = 1, !.narratives = result]
    /\ UNCHANGED <<eHandler, eOpts, eLimiter, eNarrCache, eResponse, eRequests, varsRL>>

\* detectNarratives rejected: clusterSignals, called before the try block of
\* detectNarratives, throws on a signal of the request body that lacks
\* relatedTokens or relatedProjects; handleStreaming sends an error event
\* and closes the stream, no edition is saved
EntryDetectThrows ==
    /\ ePc = "detecting"
    /\ eWork.detectOn = "client"
    /\ ePc' = "done"
    /\ eResponse' = "error"
    /\ eWork' = [eWork EXCEPT !.narratives = "throws"]
    /\ UNCHANGED <<eHandler, eOpts, eLimiter, eNarrCache, eRequests, varsRL>>

\* Variant: the response is cached also when session dedup is active
EntrySavedCachesAlways(appended) ==
    /\ ePc = "saving"
    /\ ePc' = "done"
    /\ eResponse' = "ok"
    /\ IF eHandler = "narrativesGet"
       THEN /\ eNarrCache' = [present |-> TRUE, expiresAt |-> now + CACHE_TTL_NARRATIVES]
            /\ eWork' = [eWork EXCEPT !.editions = IF appended THEN 1 ELSE 0,
                                      !.cacheSets = 1]
       ELSE /\ eWork' = [eWork EXCEPT !.editions = IF appended THEN 1 ELSE 0]
            /\ UNCHANGED eNarrCache
    /\ UNCHANGED <<eHandler, eOpts, eLimiter, eRequests, varsRL>>

\* try { edition = await saveEdition(...) } catch { non-fatal }: saveEdition
\* resolved, its edition at the head of the history (appended), or rejected
\* with nothing appended and edition left null.  Either way the response is
\* built with success: true, and the non-streaming handler caches it unless
\* session dedup is active
EntrySaved(appended) ==
    /\ ePc = "saving"
    /\ ePc' = "done"
    /\ eResponse' = "ok"
    /\ IF eHandler = "narrativesGet" /\ ~eOpts.dedup
       THEN /\ eNarrCache' = [present |-> TRUE, expiresAt |-> now + CACHE_TTL_NARRATIVES]
            /\ eWork' = [eWork EXCEPT !.editions = IF appended THEN 1 ELSE 0,
                                      !.cacheSets = 1]
       ELSE /\ eWork' = [eWork EXCEPT !.editions = IF appended THEN 1 ELSE 0]
            /\ UNCHANGED eNarrCache
    /\ UNCHANGED <<eHandler, eOpts, eLimiter, eRequests, varsRL>>

InitEntry ==
    /\ eHandler = "none"
    /\ eOpts = Opts(FALSE, FALSE, "absent")
    /\ ePc = "idle"
    /\ eLimiter = "notCalled"
    /\ eWork = NoWork
    /\ eNarrCache = NoNarrCache
    /\ eResponse = "none"
    /\ eRequests = 0

IdleEntry == InitEntry

----------------------------------------------------------------------------
(* Clustering: clusterSignals and clusterStrength of                       *)
(* src/lib/collectors/aggregator.ts                                        *)

varsCluster == <<kA, kB, kStrength, kClusters>>

\* Longest signal list clustered
MaxClusterLen == 3

CSig(id, source, category, strength, projects, tokens) ==
    [id |-> id, source |-> source, category |-> category, strength |-> strength,
     relatedProjects |-> projects, relatedTokens |-> tokens]

\* Signals the collectors may deliver: strengths at both ends of [0, 100],
\* names that differ in case only, a token listed twice by one signal
ClusterPool ==
    { CSig(1, "market",  "Trending Token", 45,  <<>>,          <<"SOL", "sol">>),
      CSig(2, "github",  "Commits",        95,  <<"Jupiter">>, <<>>),
      CSig(3, "onchain", "DeFi TVL",       100, <<"jupiter">>, <<"JUP">>),
      CSig(4, "social",  "commits",        0,   <<>>,          <<"jup">>),
      CSig(5, "market",  "DeFi TVL",       100, <<"Jupiter", "Drift">>, <<>>) }

\* Lists of up to MaxClusterLen signals with pairwise distinct ids
ClusterInputs ==
    UNION { { q \in [1..n -> ClusterPool] :
                \A i, j \in 1..n : i # j => q[i].id # q[j].id } :
            n \in 0..MaxClusterLen }

\* String.prototype.toLowerCase on the names of the pool
Lower(name) ==
    CASE name = "SOL"            -> "sol"
      [] name = "JUP"            -> "jup"
      [] name = "Jupiter"        -> "jupiter"
      [] name = "Drift"          -> "drift"
      [] name = "Trending Token" -> "trending token"
      [] name = "Commits"        -> "commits"
      [] name = "DeFi TVL"       -> "defi tvl"
      [] OTHER                   -> name

ClusterKey(kind, name) == [kind |-> kind, name |-> Lower(name)]

\* The keys one signal is pushed under, in the order of the three loops:
\* one per listed project, one per listed token, one for its category
PushedKeys(signal) ==
    [i \in 1..Len(signal.relatedProjects) |->
        ClusterKey("project", signal.relatedProjects[i])]
    \o [i \in 1..Len(signal.relatedTokens) |->
        ClusterKey("token", signal.relatedTokens[i])]
    \o <<ClusterKey("category", signal.category)>>

RECURSIVE ClusterMembers(_, _)
\* clusters[key] after the forEach: the id of a signal once per push
ClusterMembers(signals, key) ==
    IF signals = <<>> THEN <<>>
    ELSE LET pushes == SelectSeq(PushedKeys(signals[1]), LAMBDA k : k = key)
         IN  [i \in 1..Len(pushes) |-> signals[1].id]
             \o ClusterMembers(Tail(signals), key)

\* clusterSignals(signals): the keys whose list has at least 2 entries
clusterSignals(signals) ==
    LET keys == UNION { Range(PushedKeys(signals[i])) : i \in 1..Len(signals) }
    IN  [k \in { k \in keys : Len(ClusterMembers(signals, k)) >= 2 } |->
            ClusterMembers(signals, k)]

NoStrength == [done |-> FALSE, a |-> 0, b |-> 0]
NoClusters == [done |-> FALSE, clusters |-> <<>>]

\* clusterStrength is applied to kA and to a second list b
ClusterStrengthCall(b) ==
    /\ ~kStrength.done
    /\ kB' = b
    /\ kStrength' = [done |-> TRUE, a |-> clusterStrength(kA), b |-> clusterStrength(b)]
    /\ UNCHANGED <<kA, kClusters>>

\* clusterSignals is applied to kA
ClusterSignalsCall ==
    /\ ~kClusters.done
    /\ kClusters' = [done |-> TRUE, clusters |-> clusterSignals(kA)]
    /\ UNCHANGED <<kA, kB, kStrength>>

InitClusterFor(a) ==
    /\ kA = a
    /\ kB = <<>>
    /\ kStrength = NoStrength
    /\ kClusters = NoClusters

InitCluster == \E a \in ClusterInputs : InitClusterFor(a)

IdleCluster == InitClusterFor(<<>>)

----------------------------------------------------------------------------
(* Overlapping collectAllSignals calls: src/lib/collectors/aggregator.ts   *)

varsOverlap == <<oNow, oCache, oCalls, oFinished, oOverlapped>>

\* collectAllSignals calls that may be in progress together
MaxOverlap == 2

OverlapIds == 1..MaxOverlap

\* Collectors each of these calls runs
NumOverlapCollectors == 2

OverlapCollectors == 1..NumOverlapCollectors

\* The 'all-signals' entry when the first call arrives: none, or one that
\* expired at time 0
StartCaches ==
    { NoCache,
      [present |-> TRUE, data |-> <<ASig(1, "market", "Unlisted", 10, "emoji")>>,
       expiresAt |-> 0, collectedAt |-> 0] }

IdleCollect ==
    [pc |-> "idle", settled |-> [i \in OverlapCollectors |-> "idle"],
     returned |-> [i \in OverlapCollectors |-> NothingReturned],
     result |-> NoAggResult, collectedAt |-> 0]

\* Variant: allSignals is shared by the calls in progress instead of being
\* a local of each call
CollectedDataShared(call) ==
    LET others == { c \in OverlapIds : oCalls[c].pc = "collecting" }
        pick   == CHOOSE c \in others : \A x \in others : c <= x
    IN  enrichSignalDescriptions(SortByStrengthDesc(
            MergeSettled(oCalls[pick].settled, oCalls[pick].returned, NumOverlapCollectors)))

\* The locals of one call after results.forEach, sort and enrich
CollectedData(call) ==
    enrichSignalDescriptions(SortByStrengthDesc(
        MergeSettled(call.settled, call.returned, NumOverlapCollectors)))

\* Call c of collectAllSignals up to its await
OverlapStart(c, forceRefresh) ==
    /\ oCalls[c].pc = "idle"
    /\ IF ~forceRefresh /\ CacheHit(oCache, oNow)
       THEN /\ oCalls' = [oCalls EXCEPT ![c].pc = "done",
                  ![c].result = [kind |-> "cached", data |-> oCache.data,
                                 collectedAt |-> oCache.collectedAt]]
            /\ UNCHANGED <<oCache, oOverlapped>>
       ELSE /\ oCalls' = [oCalls EXCEPT ![c].pc = "collecting",
                  ![c].settled = [i \in OverlapCollectors |-> "pending"],
                  ![c].collectedAt = oNow]
            /\ oOverlapped' =
                  (oOverlapped \/ \E x \in OverlapIds : oCalls[x].pc = "collecting")
            \* getCached deletes an expired entry
            /\ oCache' = IF ~forceRefresh /\ oCache.present THEN NoCache ELSE oCache
    /\ UNCHANGED <<oNow, oFinished>>

\* Collector i of call c fulfils
OverlapCollectorFulfils(c, i, value) ==
    /\ oCalls[c].pc = "collecting"
    /\ oCalls[c].settled[i] = "pending"
    /\ oCalls' = [oCalls EXCEPT ![c].settled[i] = "fulfilled",
                                ![c].returned[i] = value]
    /\ UNCHANGED <<oNow, oCache, oFinished, oOverlapped>>

\* Collector i of call c rejects
OverlapCollectorRejects(c, i) ==
    /\ oCalls[c].pc = "collecting"
    /\ oCalls[c].settled[i] = "pending"
    /\ oCalls' = [oCalls EXCEPT ![c].settled[i] = "rejected"]
    /\ UNCHANGED <<oNow, oCache, oFinished, oOverlapped>>

\* Promise.allSettled of call c resolved: merge, sort, enrich, cache and
\* return run without suspending
OverlapJoin(c, d) ==
    /\ oCalls[c].pc = "collecting"
    /\ \A i \in OverlapCollectors : oCalls[c].settled[i] \in {"fulfilled", "rejected"}
    /\ oNow' = oNow + d
    /\ LET data == CollectedData(oCalls[c])
       IN  /\ oCalls' = [oCalls EXCEPT ![c].pc = "done",
                 ![c].result = [kind |-> "fresh", data |-> data,
                                collectedAt |-> oCalls[c].collectedAt]]
           /\ oCache' = [present |-> TRUE, data |-> data,
                         expiresAt |-> oNow' + CACHE_TTL_SIGNALS,
                         collectedAt |-> oCalls[c].collectedAt]
    /\ oFinished' = Append(oFinished, c)
    /\ UNCHANGED oOverlapped

InitOverlapFor(cache) ==
    /\ oNow = 1
    /\ oCache = cache
    /\ oCalls = [c \in OverlapIds |-> IdleCollect]
    /\ oFinished = <<>>
    /\ oOverlapped = FALSE

InitOverlap == \E cache \in StartCaches : InitOverlapFor(cache)

IdleOverlap == InitOverlapFor(NoCache)

----------------------------------------------------------------------------
(* Signal contexts: the transform of a parsed response in detectNarratives *)
(* (src/lib/ai/detector.ts, unnamed/part_012)                              *)

varsContext == <<xInsights, xNarrs, xOut>>

\* Most narratives of a response, most supporting signals of a narrative
MaxCtxNarratives == 2
MaxSupporting == 2

\* The ids of the input signals, in input order
CtxSignalIds == <<"s1", "s2">>

CtxTexts == {"A", "B"}

\* The value of a missing key or field
Undefined == "undefined"

\* An entry of supportingSignals: a string id or an object without context
\* has context Undefined
SupportingEntries ==
    [id : Range(CtxSignalIds), context : CtxTexts \cup {Undefined}]

SupportingLists == UNION { [1..n -> SupportingEntries] : n \in 0..MaxSupporting }

ParsedNarratives == UNION { [1..n -> SupportingLists] : n \in 0..MaxCtxNarratives }

\* topSignalInsights maps: a key without entry reads as Undefined
InsightMaps == [Range(CtxSignalIds) -> CtxTexts \cup {Undefined}]

\* supportingSignals.forEach(s => if (typeof s === 'object' && s.id &&
\* s.context) globalContexts[s.id] = s.context), from entry k on
RECURSIVE ExtractContexts(_, _, _)
ExtractContexts(map, supporting, k) ==
    IF k > Len(supporting) THEN map
    ELSE ExtractContexts(IF supporting[k].context # Undefined
                         THEN [map EXCEPT ![supporting[k].id] = supporting[k].context]
                         ELSE map,
                         supporting, k + 1)

\* globalContexts once the map callback has run for the first i narratives
RECURSIVE ContextsAfter(_, _, _)
ContextsAfter(insights, narrs, i) ==
    IF i = 0 THEN insights
    ELSE ExtractContexts(ContextsAfter(insights, narrs, i - 1), narrs[i], 1)

\* signals.filter(s => signalIds.includes(s.id)).map(s => ({...s,
\* aiContext: globalContexts[s.id]}))
NarrativeSignals(map, supporting) ==
    LET listed == SelectSeq(CtxSignalIds,
                            LAMBDA id : \E k \in 1..Len(supporting) : supporting[k].id = id)
    IN  [j \in 1..Len(listed) |-> [id |-> listed[j], aiContext |-> map[listed[j]]]]

\* The narratives and the signalContexts detectNarratives returns
TransformContexts(insights, narrs) ==
    [done |-> TRUE,
     narratives |-> [i \in 1..Len(narrs) |->
                        NarrativeSignals(ContextsAfter(insights, narrs, i), narrs[i])],
     signalContexts |-> ContextsAfter(insights, narrs, Len(narrs))]

NoTransform == [done |-> FALSE, narratives |-> <<>>, signalContexts |-> <<>>]

\* The code between JSON.parse and the return of detectNarratives
ContextTransform ==
    /\ ~xOut.done
    /\ xOut' = TransformContexts(xInsights, xNarrs)
    /\ UNCHANGED <<xInsights, xNarrs>>

InitContext ==
    /\ xInsights \in InsightMaps
    /\ xNarrs \in ParsedNarratives
    /\ xOut = NoTransform

IdleContext ==
    /\ xInsights = [id \in Range(CtxSignalIds) |-> Undefined]
    /\ xNarrs = <<>>
    /\ xOut = NoTransform

----------------------------------------------------------------------------
(* The merged result as an object shared by the cache, collectAllSignals   *)
(* and detectNarratives (aggregator.ts, detector.ts, unnamed/part_001)     *)

varsShared == <<mResults, mCache, mReq, mLastHit>>

\* Requests in one behaviour
MaxSharedRequests == 3

SharedRequests == 1..MaxSharedRequests

\* The signals a collection run merges: no collector sets aiContext
CollectedSignals ==
    [i \in 1..Len(CtxSignalIds) |->
        [id |-> CtxSignalIds[i], strength |-> 100 - 10 * i, aiContext |-> Undefined]]

NoRequest == [pc |-> "idle", ref |-> 0, path |-> "none", detects |-> FALSE]

NoHit == [ref |-> 0, data |-> <<>>]

\* collectAllSignals up to its await: a cache hit returns the cached
\* object; on a miss, or with forceRefresh, the collectors are started and
\* the call waits for Promise.allSettled.  The narratives handlers go on to
\* detectNarratives with result.data
SharedCollect(r, forceRefresh, detects) ==
    /\ mReq[r].pc = "idle"
    /\ LET hit == ~forceRefresh /\ mCache # 0
       IN  /\ mLastHit' = IF hit THEN [ref |-> mCache, data |-> mResults[mCache]] ELSE mLastHit
           /\ mReq' = [mReq EXCEPT ![r] =
                         [pc |-> IF ~hit THEN "collecting"
                                 ELSE IF detects THEN "detecting" ELSE "done",
                          ref |-> IF hit THEN mCache ELSE 0,
                          path |-> "none", detects |-> detects]]
    /\ UNCHANGED <<mResults, mCache>>

\* collectAllSignals after Promise.allSettled: a new result object is
\* built, stored with setCache over whatever the key holds, and returned
SharedCollected(r) ==
    /\ mReq[r].pc = "collecting"
    /\ mResults' = Append(mResults, CollectedSignals)
    /\ mCache' = Len(mResults) + 1
    /\ mReq' = [mReq EXCEPT ![r].pc = IF mReq[r].detects THEN "detecting" ELSE "done",
                            ![r].ref = Len(mResults) + 1]
    /\ UNCHANGED mLastHit

\* for (const signal of signals) if (globalContexts[signal.id])
\*     signal.aiContext = globalContexts[signal.id]
ApplyContexts(signals, contexts) ==
    [i \in 1..Len(signals) |->
        IF contexts[signals[i].id] # Undefined
        THEN [signals[i] EXCEPT !.aiContext = contexts[signals[i].id]]
        ELSE signals[i]]

\* detectNarratives on the AI path: the contexts are written into the
\* signal objects it was given
SharedDetectAi(r, contexts) ==
    /\ mReq[r].pc = "detecting"
    /\ mResults' = [mResults EXCEPT ![mReq[r].ref] = ApplyContexts(@, contexts)]
    /\ mReq' = [mReq EXCEPT ![r].pc = "done", ![r].path = "ai"]
    /\ UNCHANGED <<mCache, mLastHit>>

\* detectNarratives returns the default narratives.  A run that fails
\* before the response is parsed touches no signal (contexts maps every id
\* to undefined); in unnamed/part_012 a throw while the template ideas are
\* assigned comes after the contexts were written into the signal objects
\* the run was given, and the catch still returns the default narratives
SharedDetectDefault(r, contexts) ==
    /\ mReq[r].pc = "detecting"
    /\ mResults' = [mResults EXCEPT ![mReq[r].ref] = ApplyContexts(@, contexts)]
    /\ mReq' = [mReq EXCEPT ![r].pc = "done", ![r].path = "default"]
    /\ UNCHANGED <<mCache, mLastHit>>

\* The 'all-signals' entry outlives its TTL: the next getCached drops it
SharedExpire ==
    /\ mCache # 0
    /\ mCache' = 0
    /\ UNCHANGED <<mResults, mReq, mLastHit>>

InitShared ==
    /\ mResults = <<>>
    /\ mCache = 0
    /\ mReq = [r \in SharedRequests |-> NoRequest]
    /\ mLastHit = NoHit

IdleShared == InitShared

----------------------------------------------------------------------------
(* Specifications                                                          *)

vars == <<varsRL, varsSel, varsRouter, varsHist, varsDetect, varsAgg, varsCache, varsEntry, varsCluster, varsOverlap, varsContext, varsShared>>

\* Rate limiter alone
InitSpecRL == InitRL /\ IdleSel /\ IdleRouter /\ IdleHist /\ IdleDetect /\ IdleAgg /\ IdleCache /\ IdleEntry /\ IdleCluster /\ IdleOverlap /\ IdleContext /\ IdleShared
NextSpecRL ==
    \/ /\ \E r \in RouteKeys, d \in TimeSteps : CheckRateLimit(r, d)
       /\ UNCHANGED <<varsSel, varsRouter, varsHist, varsDetect, varsAgg, varsCache, varsEntry, varsCluster, varsOverlap, varsContext, varsShared>>
SpecRL == InitSpecRL /\ [][NextSpecRL]_vars

InitSpecRLWide == InitRLWide /\ IdleSel /\ IdleRouter /\ IdleHist /\ IdleDetect /\ IdleAgg /\ IdleCache /\ IdleEntry /\ IdleCluster /\ IdleOverlap /\ IdleContext /\ IdleShared
SpecRLWide == InitSpecRLWide /\ [][NextSpecRL]_vars

\* Diversity selector alone
InitSpecSel == InitSel /\ IdleRL /\ IdleRouter /\ IdleHist /\ IdleDetect /\ IdleAgg /\ IdleCache /\ IdleEntry /\ IdleCluster /\ IdleOverlap /\ IdleContext /\ IdleShared
NextSpecSel ==
    \/ /\ Select
       /\ UNCHANGED <<varsRL, varsRouter, varsHist, varsDetect, varsAgg, varsCache, varsEntry, varsCluster, varsOverlap, varsContext, varsShared>>
SpecSel == InitSpecSel /\ [][NextSpecSel]_vars

\* Model router alone: overlapping routeToModel calls
InitSpecRouter == InitRouter /\ IdleRL /\ IdleSel /\ IdleHist /\ IdleDetect /\ IdleAgg /\ IdleCache /\ IdleEntry /\ IdleCluster /\ IdleOverlap /\ IdleContext /\ IdleShared
NextSpecRouter ==
    \/ /\ \E c \in RouteCallIds, role \in Roles : RouteStart(c, role)
       /\ UNCHANGED <<varsRL, varsSel, varsHist, varsDetect, varsAgg, varsCache, varsEntry, varsCluster, varsOverlap, varsContext, varsShared>>
    \/ /\ \E c \in RouteCallIds : ProviderOk(c)
       /\ UNCHANGED <<varsRL, varsSel, varsHist, varsDetect, varsAgg, varsCache, varsEntry, varsCluster, varsOverlap, varsContext, varsShared>>
    \/ /\ \E c \in RouteCallIds, err \in ProviderErrors : FirstAttemptFails(c, err)
       /\ UNCHANGED <<varsRL, varsSel, varsHist, varsDetect, varsAgg, varsCache, varsEntry, varsCluster, varsOverlap, varsContext, varsShared>>
    \/ /\ \E c \in RouteCallIds : LastAttemptFails(c)
       /\ UNCHANGED <<varsRL, varsSel, varsHist, varsDetect, varsAgg, varsCache, varsEntry, varsCluster, varsOverlap, varsContext, varsShared>>
    \/ /\ GetActiveModels
       /\ UNCHANGED <<varsRL, varsSel, varsHist, varsDetect, varsAgg, varsCache, varsEntry, varsCluster, varsOverlap, varsContext, varsShared>>
SpecRouter == InitSpecRouter /\ [][NextSpecRouter]_vars

\* Edition history store alone: overlapping saveEdition calls and writes
InitSpecHist == InitHist /\ IdleRL /\ IdleSel /\ IdleRouter /\ IdleDetect /\ IdleAgg /\ IdleCache /\ IdleEntry /\ IdleCluster /\ IdleOverlap /\ IdleContext /\ IdleShared
NextSpecHist ==
    \/ /\ \E input \in RecordInputs : SaveEditionStart(input)
       /\ UNCHANGED <<varsRL, varsSel, varsRouter, varsDetect, varsAgg, varsCache, varsEntry, varsCluster, varsOverlap, varsContext, varsShared>>
    \/ /\ ReadHistoryStart
       /\ UNCHANGED <<varsRL, varsSel, varsRouter, varsDetect, varsAgg, varsCache, varsEntry, varsCluster, varsOverlap, varsContext, varsShared>>
    \/ /\ LoadFromDisk
       /\ UNCHANGED <<varsRL, varsSel, varsRouter, varsDetect, varsAgg, varsCache, varsEntry, varsCluster, varsOverlap, varsContext, varsShared>>
    \/ /\ LoadStartsFresh
       /\ UNCHANGED <<varsRL, varsSel, varsRouter, varsDetect, varsAgg, varsCache, varsEntry, varsCluster, varsOverlap, varsContext, varsShared>>
    \/ /\ \E id \in EditionIds : SaveEditionBody(id)
       /\ UNCHANGED <<varsRL, varsSel, varsRouter, varsDetect, varsAgg, varsCache, varsEntry, varsCluster, varsOverlap, varsContext, varsShared>>
    \/ /\ \E k \in 1..Len(hWrites) : DiskWriteBegin(k)
       /\ UNCHANGED <<varsRL, varsSel, varsRouter, varsDetect, varsAgg, varsCache, varsEntry, varsCluster, varsOverlap, varsContext, varsShared>>
    \/ /\ \E k \in 1..Len(hWrites) : DiskWriteDone(k)
       /\ UNCHANGED <<varsRL, varsSel, varsRouter, varsDetect, varsAgg, varsCache, varsEntry, varsCluster, varsOverlap, varsContext, varsShared>>
    \/ /\ \E k \in 1..Len(hWrites) : DiskWriteFails(k)
       /\ UNCHANGED <<varsRL, varsSel, varsRouter, varsDetect, varsAgg, varsCache, varsEntry, varsCluster, varsOverlap, varsContext, varsShared>>
SpecHist == InitSpecHist /\ [][NextSpecHist]_vars

\* One detectNarratives run of either source, under every model outcome
InitSpecDetect == InitDetect /\ IdleRL /\ IdleSel /\ IdleRouter /\ (InitHistFor(0) \/ InitHistFor(1) \/ InitHistUnusable) /\ IdleAgg /\ IdleCache /\ IdleEntry /\ IdleCluster /\ IdleOverlap /\ IdleContext /\ IdleShared
NextSpecDetect ==
    \/ /\ \E signals \in DetectInputs, prevTitles \in BOOLEAN : DetectStart(signals, prevTitles)
       /\ UNCHANGED <<varsRL, varsSel, varsRouter, varsAgg, varsCache, varsEntry, varsCluster, varsOverlap, varsContext, varsShared>>
    \/ /\ \E resp \in ModelResponses : FirstResponse(resp)
       /\ UNCHANGED <<varsRL, varsSel, varsRouter, varsAgg, varsCache, varsEntry, varsCluster, varsOverlap, varsContext, varsShared>>
    \/ /\ FirstRejected
       /\ UNCHANGED <<varsRL, varsSel, varsRouter, varsAgg, varsCache, varsEntry, varsCluster, varsOverlap, varsContext, varsShared>>
    \/ /\ DetectTimeout
       /\ UNCHANGED <<varsRL, varsSel, varsRouter, varsAgg, varsCache, varsEntry, varsCluster, varsOverlap, varsContext, varsShared>>
    \/ /\ TimerFiresLate
       /\ UNCHANGED <<varsRL, varsSel, varsRouter, varsAgg, varsCache, varsEntry, varsCluster, varsOverlap, varsContext, varsShared>>
    \/ /\ LateResponse
       /\ UNCHANGED <<varsRL, varsSel, varsRouter, varsAgg, varsCache, varsEntry, varsCluster, varsOverlap, varsContext, varsShared>>
    \/ /\ \E resp \in ModelResponses : RepairResponse(resp)
       /\ UNCHANGED <<varsRL, varsSel, varsRouter, varsAgg, varsCache, varsEntry, varsCluster, varsOverlap, varsContext, varsShared>>
    \/ /\ RepairRejected
       /\ UNCHANGED <<varsRL, varsSel, varsRouter, varsAgg, varsCache, varsEntry, varsCluster, varsOverlap, varsContext, varsShared>>
    \/ /\ \E fresh \in BOOLEAN : IdeasTitlesLoaded(fresh)
       /\ UNCHANGED <<varsRL, varsSel, varsRouter, varsAgg, varsCache, varsEntry, varsCluster, varsOverlap, varsContext, varsShared>>
    \/ /\ \E i \in 1..MaxNarratives, answer \in WritingAnswers : GenerationAnswered(i, answer)
       /\ UNCHANGED <<varsRL, varsSel, varsRouter, varsAgg, varsCache, varsEntry, varsCluster, varsOverlap, varsContext, varsShared>>
    \/ /\ \E i \in 1..MaxNarratives, answer \in WritingAnswers : CritiqueAnswered(i, answer)
       /\ UNCHANGED <<varsRL, varsSel, varsRouter, varsAgg, varsCache, varsEntry, varsCluster, varsOverlap, varsContext, varsShared>>
SpecDetect == InitSpecDetect /\ [][NextSpecDetect]_vars

\* The same runs when an armed timer always fires in the end (setTimeout of
\* 45 s) while the provider is free never to answer. An armed timer can
\* always fire: by DetectTimeout while the first call is awaited, by
\* TimerFiresLate otherwise
TimerExpires == dTimer = "armed" /\ dTimer' = "fired"
SpecDetectLive == SpecDetect /\ WF_dTimer(TimerExpires)

\* The same runs when every awaited call settles in the end: a provider
\* request resolves or rejects, and Promise.all over the idea generators
\* settles
AwaitSettles ==
    /\ dPc \in {"awaitFirst", "awaitRepair"}
    /\ dPc' \in {"awaitRepair", "awaitIdeas", "done"}
    /\ dPc' # dPc

\* A pending generateIdeasForNarrative call gets on: the history read or a
\* writing request settles
IdeaCallAdvances ==
    \/ \E fresh \in BOOLEAN : IdeasTitlesLoaded(fresh)
    \/ \E i \in 1..MaxNarratives, answer \in WritingAnswers : GenerationAnswered(i, answer)
    \/ \E i \in 1..MaxNarratives, answer \in WritingAnswers : CritiqueAnswered(i, answer)
SpecDetectSettles == SpecDetect /\ WF_dPc(AwaitSettles) /\ WF_dIdeas(IdeaCallAdvances)

\* collectAllSignals calls, one at a time, under every collector outcome
InitSpecAgg == InitAgg /\ IdleRL /\ IdleSel /\ IdleRouter /\ IdleHist /\ IdleDetect /\ IdleCache /\ IdleEntry /\ IdleCluster /\ IdleOverlap /\ IdleContext /\ IdleShared
NextSpecAgg ==
    \/ /\ \E forceRefresh \in ForceOptions, d \in AggTimeSteps :
             CollectStart(forceRefresh, d)
       /\ UNCHANGED <<varsRL, varsSel, varsRouter, varsHist, varsDetect, varsCache, varsEntry, varsCluster, varsOverlap, varsContext, varsShared>>
    \/ /\ \E i \in Collectors : \E value \in CollectorReturns(i) :
             CollectorFulfils(i, value)
       /\ UNCHANGED <<varsRL, varsSel, varsRouter, varsHist, varsDetect, varsCache, varsEntry, varsCluster, varsOverlap, varsContext, varsShared>>
    \/ /\ \E i \in Collectors : CollectorRejects(i)
       /\ UNCHANGED <<varsRL, varsSel, varsRouter, varsHist, varsDetect, varsCache, varsEntry, varsCluster, varsOverlap, varsContext, varsShared>>
    \/ /\ \E d \in JoinDelays : CollectJoin(d)
       /\ UNCHANGED <<varsRL, varsSel, varsRouter, varsHist, varsDetect, varsCache, varsEntry, varsCluster, varsOverlap, varsContext, varsShared>>
SpecAgg == InitSpecAgg /\ [][NextSpecAgg]_vars

\* The cache under every sequence of its calls
InitSpecCache == InitCache /\ IdleRL /\ IdleSel /\ IdleRouter /\ IdleHist /\ IdleDetect /\ IdleAgg /\ IdleEntry /\ IdleCluster /\ IdleOverlap /\ IdleContext /\ IdleShared
NextSpecCache ==
    \/ /\ \E key \in CacheKeys, data \in CacheValues, ttl \in CacheTtls, d \in CacheTimeSteps :
             SetCache(key, data, ttl, d)
       /\ UNCHANGED <<varsRL, varsSel, varsRouter, varsHist, varsDetect, varsAgg, varsEntry, varsCluster, varsOverlap, varsContext, varsShared>>
    \/ /\ \E key \in CacheKeys, d \in CacheTimeSteps : GetCached(key, d)
       /\ UNCHANGED <<varsRL, varsSel, varsRouter, varsHist, varsDetect, varsAgg, varsEntry, varsCluster, varsOverlap, varsContext, varsShared>>
    \/ /\ \E key \in CacheKeys, d \in CacheTimeSteps : InvalidateCache(key, d)
       /\ UNCHANGED <<varsRL, varsSel, varsRouter, varsHist, varsDetect, varsAgg, varsEntry, varsCluster, varsOverlap, varsContext, varsShared>>
    \/ /\ \E prefix \in CachePrefixes, d \in CacheTimeSteps :
             InvalidateCacheByPrefix(prefix, d)
       /\ UNCHANGED <<varsRL, varsSel, varsRouter, varsHist, varsDetect, varsAgg, varsEntry, varsCluster, varsOverlap, varsContext, varsShared>>
    \/ /\ \E d \in CacheTimeSteps : ClearCache(d)
       /\ UNCHANGED <<varsRL, varsSel, varsRouter, varsHist, varsDetect, varsAgg, varsEntry, varsCluster, varsOverlap, varsContext, varsShared>>
    \/ /\ \E d \in CacheTimeSteps : GetCacheStats(d)
       /\ UNCHANGED <<varsRL, varsSel, varsRouter, varsHist, varsDetect, varsAgg, varsEntry, varsCluster, varsOverlap, varsContext, varsShared>>
SpecCache == InitSpecCache /\ [][NextSpecCache]_vars

\* Requests served one at a time by the three handlers, with the limiter
InitSpecEntry == InitEntry /\ (\E used \in [RouteKeys -> UNION {ServedBefore[r] : r \in RouteKeys}] : (\A r \in RouteKeys : used[r] \in ServedBefore[r]) /\ InitRLServing(used)) /\ IdleSel /\ IdleRouter /\ IdleHist /\ IdleDetect /\ IdleAgg /\ IdleCache /\ IdleCluster /\ IdleOverlap /\ IdleContext /\ IdleShared
NextSpecEntry ==
    \/ /\ \E opts \in OptsOf("narrativesGet"), d \in EntryTimeSteps : NarrativesGet(opts, d)
       /\ UNCHANGED <<varsSel, varsRouter, varsHist, varsDetect, varsAgg, varsCache, varsCluster, varsOverlap, varsContext, varsShared>>
    \/ /\ \E opts \in OptsOf("signalsGet"), d \in EntryTimeSteps : SignalsGet(opts, d)
       /\ UNCHANGED <<varsSel, varsRouter, varsHist, varsDetect, varsAgg, varsCache, varsCluster, varsOverlap, varsContext, varsShared>>
    \/ /\ \E opts \in OptsOf("narrativesStream"), d \in EntryTimeSteps :
             NarrativesStream(opts, d)
       /\ UNCHANGED <<varsSel, varsRouter, varsHist, varsDetect, varsAgg, varsCache, varsCluster, varsOverlap, varsContext, varsShared>>
    \/ /\ \E d \in EntryTimeSteps : RegenerateIdeas(d)
       /\ UNCHANGED <<varsSel, varsRouter, varsHist, varsDetect, varsAgg, varsCache, varsCluster, varsOverlap, varsContext, varsShared>>
    \/ /\ \E status \in {"ok", "400", "500"} : EntryRegenerated(status)
       /\ UNCHANGED <<varsSel, varsRouter, varsHist, varsDetect, varsAgg, varsCache, varsCluster, varsOverlap, varsContext, varsShared>>
    \/ /\ EntryDetectThrows
       /\ UNCHANGED <<varsSel, varsRouter, varsHist, varsDetect, varsAgg, varsCache, varsCluster, varsOverlap, varsContext, varsShared>>
    \/ /\ \E hit \in BOOLEAN : EntryCollected(hit)
       /\ UNCHANGED <<varsSel, varsRouter, varsHist, varsDetect, varsAgg, varsCache, varsCluster, varsOverlap, varsContext, varsShared>>
    \/ /\ \E result \in DetectResults : EntryDetected(result)
       /\ UNCHANGED <<varsSel, varsRouter, varsHist, varsDetect, varsAgg, varsCache, varsCluster, varsOverlap, varsContext, varsShared>>
    \/ /\ \E appended \in BOOLEAN : EntrySaved(appended)
       /\ UNCHANGED <<varsSel, varsRouter, varsHist, varsDetect, varsAgg, varsCache, varsCluster, varsOverlap, varsContext, varsShared>>
SpecEntry == InitSpecEntry /\ [][NextSpecEntry]_vars


\* clusterSignals and clusterStrength applied to every bounded signal list
InitSpecCluster == InitCluster /\ IdleRL /\ IdleSel /\ IdleRouter /\ IdleHist /\ IdleDetect /\ IdleAgg /\ IdleCache /\ IdleEntry /\ IdleOverlap /\ IdleContext /\ IdleShared
NextSpecCluster ==
    \/ /\ \E b \in ClusterInputs : ClusterStrengthCall(b)
       /\ UNCHANGED <<varsRL, varsSel, varsRouter, varsHist, varsDetect, varsAgg, varsCache, varsEntry, varsOverlap, varsContext, varsShared>>
    \/ /\ ClusterSignalsCall
       /\ UNCHANGED <<varsRL, varsSel, varsRouter, varsHist, varsDetect, varsAgg, varsCache, varsEntry, varsOverlap, varsContext, varsShared>>
SpecCluster == InitSpecCluster /\ [][NextSpecCluster]_vars


\* collectAllSignals calls that overlap, under every collector outcome
InitSpecOverlap == InitOverlap /\ IdleRL /\ IdleSel /\ IdleRouter /\ IdleHist /\ IdleDetect /\ IdleAgg /\ IdleCache /\ IdleEntry /\ IdleCluster /\ IdleContext /\ IdleShared
NextSpecOverlap ==
    \/ /\ \E c \in OverlapIds, forceRefresh \in ForceOptions : OverlapStart(c, forceRefresh)
       /\ UNCHANGED <<varsRL, varsSel, varsRouter, varsHist, varsDetect, varsAgg, varsCache, varsEntry, varsCluster, varsContext, varsShared>>
    \/ /\ \E c \in OverlapIds, i \in OverlapCollectors : \E value \in CollectorReturns(i) :
            OverlapCollectorFulfils(c, i, value)
       /\ UNCHANGED <<varsRL, varsSel, varsRouter, varsHist, varsDetect, varsAgg, varsCache, varsEntry, varsCluster, varsContext, varsShared>>
    \/ /\ \E c \in OverlapIds, i \in OverlapCollectors : OverlapCollectorRejects(c, i)
       /\ UNCHANGED <<varsRL, varsSel, varsRouter, varsHist, varsDetect, varsAgg, varsCache, varsEntry, varsCluster, varsContext, varsShared>>
    \/ /\ \E c \in OverlapIds, d \in JoinDelays : OverlapJoin(c, d)
       /\ UNCHANGED <<varsRL, varsSel, varsRouter, varsHist, varsDetect, varsAgg, varsCache, varsEntry, varsCluster, varsContext, varsShared>>
SpecOverlap == InitSpecOverlap /\ [][NextSpecOverlap]_vars

InitSpecContext == IdleRL /\ IdleSel /\ IdleRouter /\ IdleHist /\ IdleDetect /\ IdleAgg /\ IdleCache /\ IdleEntry /\ IdleCluster /\ IdleOverlap /\ InitContext /\ IdleShared
NextSpecContext ==
    \/ /\ ContextTransform
       /\ UNCHANGED <<varsRL, varsSel, varsRouter, varsHist, varsDetect, varsAgg, varsCache, varsEntry, varsCluster, varsOverlap, varsShared>>
SpecContext == InitSpecContext /\ [][NextSpecContext]_vars

InitSpecShared == IdleRL /\ IdleSel /\ IdleRouter /\ IdleHist /\ IdleDetect /\ IdleAgg /\ IdleCache /\ IdleEntry /\ IdleCluster /\ IdleOverlap /\ IdleContext /\ InitShared
NextSpecShared ==
    \/ /\ \E r \in SharedRequests, f \in BOOLEAN, d \in BOOLEAN : SharedCollect(r, f, d)
       /\ UNCHANGED <<varsRL, varsSel, varsRouter, varsHist, varsDetect, varsAgg, varsCache, varsEntry, varsCluster, varsOverlap, varsContext>>
    \/ /\ \E r \in SharedRequests, c \in InsightMaps : SharedDetectAi(r, c)
       /\ UNCHANGED <<varsRL, varsSel, varsRouter, varsHist, varsDetect, varsAgg, varsCache, varsEntry, varsCluster, varsOverlap, varsContext>>
    \/ /\ \E r \in SharedRequests : SharedCollected(r)
       /\ UNCHANGED <<varsRL, varsSel, varsRouter, varsHist, varsDetect, varsAgg, varsCache, varsEntry, varsCluster, varsOverlap, varsContext>>
    \/ /\ \E r \in SharedRequests, c \in InsightMaps : SharedDetectDefault(r, c)
       /\ UNCHANGED <<varsRL, varsSel, varsRouter, varsHist, varsDetect, varsAgg, varsCache, varsEntry, varsCluster, varsOverlap, varsContext>>
    \/ /\ SharedExpire
       /\ UNCHANGED <<varsRL, varsSel, varsRouter, varsHist, varsDetect, varsAgg, varsCache, varsEntry, varsCluster, varsOverlap, varsContext>>
SpecShared == InitSpecShared /\ [][NextSpecShared]_vars

----------------------------------------------------------------------------
(* Claims about the rate limiter                                           *)

\* Accepted timestamps of key k inside the rolling window (T - W, T]
AcceptedInWindow(k, T, W) ==
    Cardinality({j \in 1..Len(rlAccepted[k]) :
                    T - W < rlAccepted[k][j] /\ rlAccepted[k][j] <= T})

\* C1 as stated: for one key and one fixed config, whatever its window, the
\* calls answered 'allowed' whose timestamps lie inside any rolling window
\* of length windowMs (the window (T - windowMs, T] ending at any accepted
\* timestamp T) never exceed maxRequests.
C1_SlidingWindowLimit ==
    \A r \in RouteKeys :
        \A i \in 1..Len(rlAccepted[RLKey(r)]) :
            AcceptedInWindow(RLKey(r), rlAccepted[RLKey(r)][i], rlConfig[r].windowMs)
                <= rlConfig[r].maxRequests

\* What the code does: the limit holds for the keys whose config has a
\* window no longer than the one the sweep filters with.
C1_SlidingWindowAsBuilt ==
    \A r \in RouteKeys :
        rlConfig[r].windowMs <= SweepWindow =>
            \A i \in 1..Len(rlAccepted[RLKey(r)]) :
                AcceptedInWindow(RLKey(r), rlAccepted[RLKey(r)][i], rlConfig[r].windowMs)
                    <= rlConfig[r].maxRequests

\* A key with a 20-minute window and maxRequests 1 holds two accepted
\* timestamps 15 minutes apart: the sweep removed the first one.
C1_WitnessSweptKeyAdmitted ==
    \E r \in RouteKeys :
        /\ rlConfig[r].windowMs > SweepWindow
        /\ rlConfig[r].maxRequests = 1
        /\ Len(rlAccepted[RLKey(r)]) = 2
        /\ rlAccepted[RLKey(r)][2] - rlAccepted[RLKey(r)][1] = SweepWindow

\* A key was denied after its window had already slid: more calls were
\* accepted over time than fit in one window.
C1_Witness ==
    \E r \in RouteKeys :
        /\ rlLast.key = RLKey(r)
        /\ ~rlLast.allowed
        /\ Len(rlAccepted[RLKey(r)]) > rlConfig[r].maxRequests

----------------------------------------------------------------------------
(* Claims about the diversity selector                                     *)

CountOfSource(s, src) == Len(SelectSeq(s, LAMBDA x : x.source = src))

RECURSIVE SumSeq(_)
SumSeq(s) == IF s = <<>> THEN 0 ELSE s[1] + SumSeq(Tail(s))

\* Sum over the sources of the input of min(minPerSource, signals of it)
GuaranteedTotal(signals, minPerSource) ==
    LET srcs == SourcesInOrder(signals)
    IN  SumSeq([i \in 1..Len(srcs) |->
                   Min(minPerSource, CountOfSource(signals, srcs[i]))])

\* C5: over budget, every source of the input keeps at least
\* min(minPerSource, its number of input signals) signals in the output,
\* however weak they are; the output holds input signals only.
C5_MinPerSourceKept ==
    (selDone /\ Len(selInput) > selMaxTotal) =>
        /\ Range(selOutput) \subseteq Range(selInput)
        /\ \A src \in Range(SourcesInOrder(selInput)) :
              CountOfSource(selOutput, src)
                  >= Min(selMinPerSource, CountOfSource(selInput, src))

\* A source whose signals are all weaker than every signal of the other
\* sources is still represented although the budget is exceeded.
C5_Witness ==
    /\ selDone
    /\ Len(selInput) > selMaxTotal
    /\ selMinPerSource >= 1
    /\ \E src \in Range(SourcesInOrder(selInput)) :
          /\ \A i \in 1..Len(selInput) :
                (selInput[i].source = src) <=> (selInput[i].strength = 10)
          /\ CountOfSource(selInput, src) < Len(selInput)
          /\ Len(selInput) - CountOfSource(selInput, src) >= selMaxTotal
          /\ CountOfSource(selOutput, src) >= 1

\* C6 as stated: over budget, the output has exactly maxTotal signals for
\* every maxTotal, minPerSource and number of sources.
C6_Original_ExactlyMaxTotal ==
    (selDone /\ Len(selInput) > selMaxTotal) => Len(selOutput) = selMaxTotal

\* C6 amended: over budget, the output has exactly
\* max(maxTotal, sum over sources of min(minPerSource, signals of the source))
\* signals: exactly maxTotal when the per-source guarantees fit in the
\* budget, and the guaranteed total otherwise.
C6_SizeIsMaxOfBudgetAndGuarantee ==
    (selDone /\ Len(selInput) > selMaxTotal) =>
        Len(selOutput) = Max(selMaxTotal, GuaranteedTotal(selInput, selMinPerSource))

\* Both regimes of the size occur: phase 2 fills up to the budget.
C6_Witness ==
    /\ selDone
    /\ Len(selInput) > selMaxTotal
    /\ GuaranteedTotal(selInput, selMinPerSource) < selMaxTotal
    /\ Len(selOutput) = selMaxTotal
    /\ selMinPerSource >= 1

----------------------------------------------------------------------------
(* Claims about the model router                                           *)

\* C2: once the breaker is set, every writing-role call that starts
\* afterwards sends exactly one request, to OpenAI, never one to Anthropic,
\* and an answer it returns comes from OpenAI; calls that were already in
\* flight when the breaker tripped do not change this.
C2_AfterTripWritingGoesToOpenAI ==
    \A c \in RouteCallIds :
        (rtCalls[c].role = "writing" /\ rtCalls[c].startedDisabled) =>
            /\ Len(rtCalls[c].sent) = 1
            /\ rtCalls[c].sent[1].provider = "openai"
            /\ rtCalls[c].pc = "done" => rtCalls[c].result = "openai"

\* The breaker has tripped while another writing call is still waiting for
\* Anthropic, and a writing call started after the trip was answered.
C2_Witness ==
    /\ anthropicDisabled
    /\ \E c1, c2, c3 \in RouteCallIds :
          /\ rtCalls[c1].role = "writing" /\ ~rtCalls[c1].startedDisabled
          /\ rtCalls[c1].pc = "second"
          /\ rtCalls[c2].role = "writing" /\ ~rtCalls[c2].startedDisabled
          /\ rtCalls[c2].pc = "first" /\ rtCalls[c2].sent[1].provider = "anthropic"
          /\ rtCalls[c3].role = "writing" /\ rtCalls[c3].startedDisabled
          /\ rtCalls[c3].pc = "done"

----------------------------------------------------------------------------
(* Claims about the edition history store                                  *)

\* C7: after every saveEdition call the in-memory list holds at most
\* MAX_EDITIONS editions; the new edition is at the head, the editions the
\* call found follow in their order, and when the call found a full list
\* exactly its last (oldest) edition is dropped.
C7_CappedOldestEvicted ==
    hLast.valid =>
        /\ Len(hMem) <= MAX_EDITIONS
        /\ hMem[1] = hLast.edition
        /\ IF Len(hLast.before) >= MAX_EDITIONS
           THEN Tail(hMem) = SubSeq(hLast.before, 1, Len(hLast.before) - 1)
           ELSE Tail(hMem) = hLast.before

\* A saveEdition call found the list full and evicted its oldest edition.
C7_Witness ==
    /\ hLast.valid
    /\ Len(hLast.before) = MAX_EDITIONS
    /\ Len(hMem) = MAX_EDITIONS
    /\ hMem[MAX_EDITIONS] = hLast.before[MAX_EDITIONS - 1]

\* C8: a recorded narrative whose slug is in the most recent prior edition
\* gets confidenceDelta = its confidence minus the confidence the prior
\* edition holds for that slug, and status rising iff the delta exceeds 10,
\* fading iff it is below -10, stable otherwise (10 and -10 are stable);
\* only the most recent prior edition enters the result.
C8_TrendAgainstPreviousEdition ==
    (hLast.valid /\ Len(hLast.before) > 0) =>
        \A i \in 1..Len(hLast.edition.narratives) :
            LET n    == hLast.edition.narratives[i]
                prev == hLast.before[1]
            IN  n.slug \in SlugsOf(prev) =>
                  /\ n.confidenceDelta = n.confidence - PrevEntry(prev, n.slug).confidence
                  /\ (n.status = "rising") <=> (n.confidenceDelta > 10)
                  /\ (n.status = "fading") <=> (n.confidenceDelta < -10)
                  /\ (n.status = "stable") <=>
                         (n.confidenceDelta >= -10 /\ n.confidenceDelta <= 10)

\* A delta of exactly 10 was classified stable while an older edition holds
\* the slug at a confidence that would have given another status.
C8_Witness ==
    /\ hLast.valid
    /\ Len(hLast.before) >= 2
    /\ \E i \in 1..Len(hLast.edition.narratives) :
          LET n == hLast.edition.narratives[i]
          IN  /\ n.slug \in SlugsOf(hLast.before[1])
              /\ n.confidenceDelta = 10
              /\ n.status = "stable"
              /\ n.slug \in SlugsOf(hLast.before[2])
              /\ n.confidence - PrevEntry(hLast.before[2], n.slug).confidence > 10

\* C9: a recorded narrative whose slug is absent from the most recent prior
\* edition (or recorded into an empty history) has confidenceDelta 0 and is
\* returning iff its slug is in one of the 4 editions right before that
\* one, new otherwise.
C9_ReturningOrNew ==
    hLast.valid =>
        \A i \in 1..Len(hLast.edition.narratives) :
            LET n == hLast.edition.narratives[i]
                b == hLast.before
            IN  (Len(b) = 0 \/ n.slug \notin SlugsOf(b[1])) =>
                  /\ n.confidenceDelta = 0
                  /\ n.status \in {"returning", "new"}
                  /\ (n.status = "returning") <=>
                        \E k \in 2..5 : k <= Len(b) /\ n.slug \in SlugsOf(b[k])

\* A slug last seen exactly 6 editions ago was classified new.
C9_Witness ==
    /\ hLast.valid
    /\ Len(hLast.before) >= 6
    /\ \E i \in 1..Len(hLast.edition.narratives) :
          LET n == hLast.edition.narratives[i]
          IN  /\ n.status = "new"
              /\ n.slug \in SlugsOf(hLast.before[6])
              /\ \A k \in 1..5 : n.slug \notin SlugsOf(hLast.before[k])

----------------------------------------------------------------------------
(* Claims about narrative detection                                        *)

\* C3 as stated: a run on a non-empty signal list resolves, under every
\* outcome of the model calls, with at least one narrative, also when the
\* response is valid JSON whose narratives list is empty or missing.
C3_AlwaysAtLeastOneNarrative ==
    (dPc = "done" /\ Len(dSignals) > 0) =>
        /\ dResult.kind \in {"ai", "fallback", "default"}
        /\ Len(dResult.narratives) >= 1

\* Number of routeToModel calls made for the reasoning role
ReasoningRoutes == Len(SelectSeq(dRoutes, LAMBDA r : r = "reasoning"))

\* C4: a run routes the reasoning role at most twice; the second (repair)
\* call is made exactly when the first response has arrived and does not
\* parse as JSON after the code fence is stripped; and a run whose repair
\* response does not parse, or whose repair call rejected, returns the
\* non-empty fallback set of its source.
C4_OneRepairAtMost ==
    /\ ReasoningRoutes <= 2
    /\ (ReasoningRoutes = 2) <=>
          (dFirst.arrived /\ dFirst.content.kind = "garbage")
    /\ dRepair \in {"unparsable", "rejected"} =>
          /\ dPc = "done"
          /\ ReasoningRoutes = 2
          /\ dResult = FallbackResult(dVariant, dSignals)
          /\ dResult.kind \in {"fallback", "default"}
          /\ Len(dResult.narratives) >= 1

\* A fenced but invalid first response was followed by one repair call
\* whose response did not parse either, and the run ended with the fallback.
C4_Witness ==
    /\ dPc = "done"
    /\ dFirst.arrived /\ dFirst.content.fenced /\ dFirst.content.kind = "garbage"
    /\ dRepair = "unparsable"
    /\ ReasoningRoutes = 2
    /\ dResult.kind \in {"fallback", "default"}

\* A fenced valid first response was parsed without any repair call.
C4_WitnessFencedValid ==
    /\ dPc = "done"
    /\ dFirst.arrived /\ dFirst.content.fenced /\ dFirst.content.kind = "object"
    /\ ReasoningRoutes = 1
    /\ dResult.kind = "ai"

----------------------------------------------------------------------------
(* Claims about signal aggregation                                         *)

\* Ids of the signals in a list
IdsOf(signals) == { signals[i].id : i \in 1..Len(signals) }

\* Ids of the signals the fulfilled collectors returned
IdsFulfilled ==
    UNION { IdsOf(aReturned[i].data) : i \in { j \in Collectors : aSettled[j] = "fulfilled" } }

\* Number of signals the fulfilled collectors returned
RECURSIVE CountFulfilled(_)
CountFulfilled(n) ==
    IF n = 0 THEN 0
    ELSE CountFulfilled(n - 1)
         + (IF aSettled[n] = "fulfilled" THEN Len(aReturned[n].data) ELSE 0)

\* C10: whatever subset of collectors rejects, a fresh collection resolves
\* only after every collector has settled, and its list holds exactly the
\* signals of the fulfilled collectors, each once; when every collector
\* rejected the list is empty.
C10_RejectionsIsolated ==
    (aPc = "done" /\ aResult.kind # "cached") =>
        /\ aResult.kind = "fresh"
        /\ \A i \in Collectors : aSettled[i] \in {"fulfilled", "rejected"}
        /\ IdsOf(aResult.data) = IdsFulfilled
        /\ Len(aResult.data) = CountFulfilled(NumCollectors)
        /\ (\A i \in Collectors : aSettled[i] = "rejected") => aResult.data = <<>>

\* One collector rejected, the others fulfilled with signals, and the call
\* resolved with their signals.
C10_Witness ==
    /\ aPc = "done"
    /\ aResult.kind = "fresh"
    /\ \E i \in Collectors : aSettled[i] = "rejected"
    /\ Cardinality({ i \in Collectors : aSettled[i] = "fulfilled"
                                        /\ Len(aReturned[i].data) > 0 }) >= 2
    /\ Len(aResult.data) >= 3

\* Every collector rejected and the call resolved with an empty list.
C10_WitnessAllRejected ==
    /\ aPc = "done"
    /\ aResult.kind = "fresh"
    /\ \A i \in Collectors : aSettled[i] = "rejected"
    /\ aResult.data = <<>>

----------------------------------------------------------------------------
(* Claims about the TTL cache                                              *)

\* C11: a get(key) returns the value of the latest set of that key when the
\* clock is strictly before that entry's expiresAt, and returns absent when
\* the clock is strictly after it, or when the key was never set or was
\* removed since.
C11_GetHonoursExpiry ==
    cLastGet.valid =>
        LET latest == cLatest[cLastGet.key]
        IN  /\ (latest.live /\ cLastGet.at < latest.expiresAt) =>
                  (cLastGet.found /\ cLastGet.data = latest.data)
            /\ (~latest.live \/ cLastGet.at > latest.expiresAt) => ~cLastGet.found

\* A key was set, and a get strictly after that entry's expiry returned
\* absent.
C11_Witness ==
    /\ cLastGet.valid
    /\ cLatest[cLastGet.key].live
    /\ cLastGet.at > cLatest[cLastGet.key].expiresAt
    /\ ~cLastGet.found

\* A get strictly before expiry, after time has passed, returned the value.
C11_WitnessFresh ==
    /\ cLastGet.valid
    /\ cLatest[cLastGet.key].live
    /\ cLastGet.at > 0
    /\ cLastGet.at < cLatest[cLastGet.key].expiresAt
    /\ cLastGet.found

----------------------------------------------------------------------------
(* Claims about the route handlers                                         *)

\* C12 as stated: a request of any of the three handlers has started a
\* collection, a detection, an edition save or a cache write only after the
\* rate limiter was consulted for it and allowed it.
C12_LimiterBeforeAnyWork ==
    eWork # NoWork => eLimiter = "allowed"

\* The two handlers that do call the limiter: a denied request is answered
\* 429 and has started nothing.
C12_DeniedStartsNothing ==
    eLimiter = "denied" => (eWork = NoWork /\ eResponse = "429" /\ ePc = "done")

\* A request was denied by the limiter.
C12_WitnessDenied ==
    /\ eLimiter = "denied"
    /\ eHandler = "narrativesGet"
    /\ eResponse = "429"

----------------------------------------------------------------------------
(* Claims about the detection timeout                                      *)

\* C13 as stated: with a provider that may never answer, a run does not wait
\* for ever on the first reasoning call or on the repair call, and when the
\* timer fires during either wait the run ends with the fallback set.
C13_UnansweredCallTimesOut ==
    /\ (dPc \in {"awaitFirst", "awaitRepair"}) ~> (dPc \notin {"awaitFirst", "awaitRepair"})
    /\ [][(dPc \in {"awaitFirst", "awaitRepair"} /\ dTimer = "armed" /\ dTimer' = "fired")
            => (dPc' = "done" /\ dResult'.kind \in {"fallback", "default"})]_vars

\* The part that holds: in unnamed/part_012 an unanswered first call never
\* outlasts the timer.
C13_FirstCallTimesOut ==
    /\ (dVariant = "part_012" /\ dPc = "awaitFirst") ~> (dPc # "awaitFirst")
    /\ [][(dPc = "awaitFirst" /\ dTimer = "armed" /\ dTimer' = "fired")
            => (dPc' = "done" /\ dResult'.kind = "fallback")]_vars

\* The repair call is awaited after the timer has fired.
C13_WitnessRepairOutlivesTimer ==
    /\ dVariant = "part_012"
    /\ dPc = "awaitRepair"
    /\ dTimer = "fired"

----------------------------------------------------------------------------
(* Claims about a response that arrives after the timeout                  *)

\* C14: when the timer wins the race against the first reasoning call the
\* run ends with the rule-based fallback built from the raw signals, and
\* from then on nothing, a late provider response included, changes the
\* returned narratives, any signal's aiContext or the edition history.
C14_LateResponseDiscarded ==
    /\ [][(dPc = "awaitFirst" /\ dTimer = "armed" /\ dTimer' = "fired")
            => /\ dPc' = "done"
               /\ dResult' = buildFallbackNarratives(dSignals)
               /\ dContexts' = {}]_vars
    /\ [][(dPc = "done" /\ dTimer = "fired")
            => /\ dResult' = dResult
               /\ dContexts' = dContexts
               /\ hMem' = hMem /\ hDisk' = hDisk]_vars

\* The timeout won, the fallback was returned, and the late response has
\* arrived and was dropped.
C14_Witness ==
    /\ dVariant = "part_012"
    /\ dPc = "done"
    /\ dTimer = "fired"
    /\ dDiscarded
    /\ ~dFirst.arrived
    /\ dResult.kind = "fallback"
    /\ Len(dResult.narratives) >= 2
    /\ dContexts = {}

----------------------------------------------------------------------------
(* Claims about cache hits of the aggregator                               *)

\* C15: a collectAll call without forceRefresh that finds an unexpired
\* merged result in the cache returns that result with its original
\* collectedAt and signal list, starts no collector, and leaves the cache
\* entry, its expiry included, as it was.
C15_CacheHitReturnsUnchanged ==
    [][(aCalls' = aCalls + 1 /\ ~aForce' /\ aCache.present /\ aNow' < aCache.expiresAt)
        => /\ aResult'.data = aCache.data
           /\ aResult'.collectedAt = aCache.collectedAt
           /\ aPc' = "done"
           /\ aSettled' = aSettled
           /\ aCache' = aCache]_vars

\* A call made later than the collection it hits returned the cached
\* result, whose collectedAt is older than the call.
C15_Witness ==
    /\ aPc = "done"
    /\ aResult.kind = "cached"
    /\ ~aForce
    /\ aCalls = 2
    /\ Len(aResult.data) >= 3
    /\ aResult.collectedAt < aNow
    /\ aCache.expiresAt = aCache.collectedAt + 1000 + CACHE_TTL_SIGNALS

----------------------------------------------------------------------------
(* Claims about the router's second attempt                                *)

\* The step in which the first provider request of call c fails: the call
\* leaves its first wait without an answer
FirstAttemptFailing(c) ==
    /\ rtCalls[c].pc \in {"first", "redirected"}
    /\ rtCalls'[c].pc \notin {rtCalls[c].pc, "done"}

\* The failing first request of call c went to Anthropic and the error
\* caught matches the quota/billing signature
FailingOnCredit(c) ==
    /\ rtCalls[c].sent[1].provider = "anthropic"
    /\ isAnthropicCreditError(rtErr')

\* C16 as stated: when the first provider request of a route call fails,
\* the call is re-issued once; on an Anthropic quota/billing error the
\* breaker is set and the second request goes to the provider and model
\* bound to the reasoning role; on any other failure the breaker is left
\* unchanged and the second request goes to the fallback binding.
C16_SecondAttemptBinding ==
    [][\A c \in RouteCallIds :
          FirstAttemptFailing(c) =>
              /\ Len(rtCalls'[c].sent) = 2
              /\ IF FailingOnCredit(c)
                 THEN /\ anthropicDisabled'
                      /\ rtCalls'[c].sent[2] = MODELS("reasoning")
                 ELSE /\ anthropicDisabled' = anthropicDisabled
                      /\ rtCalls'[c].sent[2] = MODELS("fallback")]_vars

\* What the code does: a failure caught by the try block is re-issued as
\* stated, except that after a quota/billing error the second request names
\* the model o3-mini, which no role is bound to; a call redirected by the
\* open breaker runs outside the try block and is not re-issued at all.
C16_SecondAttemptAsBuilt ==
    [][\A c \in RouteCallIds :
          FirstAttemptFailing(c) =>
              IF rtCalls[c].pc = "redirected"
              THEN /\ rtCalls'[c].pc = "failed"
                   /\ Len(rtCalls'[c].sent) = 1
                   /\ anthropicDisabled' = anthropicDisabled
              ELSE /\ Len(rtCalls'[c].sent) = 2
                   /\ IF FailingOnCredit(c)
                      THEN /\ anthropicDisabled'
                           /\ rtCalls'[c].sent[2] =
                                 [provider |-> "openai", model |-> "o3-mini"]
                      ELSE /\ anthropicDisabled' = anthropicDisabled
                           /\ rtCalls'[c].sent[2] = MODELS("fallback")]_vars

\* A writing call failed on a quota error and was re-issued.
C16_WitnessCredit ==
    \E c \in RouteCallIds :
        /\ Len(rtCalls[c].sent) = 2
        /\ rtCalls[c].sent[1].provider = "anthropic"
        /\ isAnthropicCreditError(rtErr)
        /\ rtCalls[c].pc = "done"
        /\ rtCalls[c].sent[2].model = "o3-mini"

\* A call redirected by the open breaker failed without a second request.
C16_WitnessRedirectedFails ==
    \E c \in RouteCallIds :
        /\ rtCalls[c].pc = "failed"
        /\ rtCalls[c].startedDisabled
        /\ Len(rtCalls[c].sent) = 1

----------------------------------------------------------------------------
(* Claims about the breaker flag and the reported models                   *)

\* C17: the breaker flag only ever goes from closed to open: no step of a
\* route call, for any role and whether its requests succeed or fail, and
\* no call of getActiveModels closes it again.
C17_BreakerNeverCloses ==
    [][anthropicDisabled => anthropicDisabled']_vars

\* The breaker is open, and since then a writing call was answered, a
\* reasoning call failed both requests, and getActiveModels has reported the
\* breaker as open.
C17_Witness ==
    /\ anthropicDisabled
    /\ rtActive = getActiveModels
    /\ \E c1, c2 \in RouteCallIds :
          /\ rtCalls[c1].role = "writing" /\ rtCalls[c1].startedDisabled
          /\ rtCalls[c1].pc = "done"
          /\ rtCalls[c2].role = "reasoning" /\ rtCalls[c2].startedDisabled
          /\ rtCalls[c2].pc = "failed"

\* The model a reported label names
ModelNamedBy(label) ==
    CASE label = "Claude Sonnet 4 (writing)"             -> "claude-sonnet-4-20250514"
      [] label = "GPT-4o-mini (writing)"                 -> "gpt-4o-mini"
      [] label = "GPT-4o-mini (reasoning)"               -> "gpt-4o-mini"
      [] label = "GPT-4o-mini (fallback)"                -> "gpt-4o-mini"
      [] label = "o3-mini (Anthropic credits exhausted)" -> "o3-mini"
      [] OTHER                                           -> "none"

\* Call c starts in this step as a writing-role call
WritingCallStarts(c) ==
    /\ rtCalls[c].pc = "idle"
    /\ rtCalls'[c].pc # "idle"
    /\ rtCalls'[c].role = "writing"

\* C18 as stated: in every reachable state, the writing model reported by
\* getActiveModels is the model to which a writing-role route call started
\* in that state sends its first request.
C18_ReportedWritingModelIsUsed ==
    [][\A c \in RouteCallIds :
          WritingCallStarts(c) =>
              rtCalls'[c].sent[1].model = ModelNamedBy(getActiveModels.writing)]_vars

\* What the code does: the report names the model of the first request as
\* long as the breaker is closed; once it is open the report names o3-mini
\* while the first request goes to gpt-4o-mini.
C18_ReportedWritingModelAsBuilt ==
    [][\A c \in RouteCallIds :
          WritingCallStarts(c) =>
              IF anthropicDisabled
              THEN /\ ModelNamedBy(getActiveModels.writing) = "o3-mini"
                   /\ rtCalls'[c].sent[1].model = "gpt-4o-mini"
              ELSE rtCalls'[c].sent[1].model =
                      ModelNamedBy(getActiveModels.writing)]_vars

\* getActiveModels reported the open breaker, and a writing call started
\* after the trip has sent its first request.
C18_WitnessOpen ==
    /\ anthropicDisabled
    /\ rtActive = getActiveModels
    /\ \E c \in RouteCallIds :
          /\ rtCalls[c].role = "writing" /\ rtCalls[c].startedDisabled
          /\ rtCalls[c].pc = "redirected"

----------------------------------------------------------------------------
(* Claims about idea generation in detector.ts                             *)

\* A detector.ts run has returned the narratives parsed from the model
DetectReturnedParsed ==
    dVariant = "detector_ts" /\ dPc = "done" /\ dResult.kind = "ai"

\* Idea generation failed for narrative i: the generator rejected, its
\* generation request failed or was answered with no JSON, or the ideas it
\* kept could not be mapped
IdeaFailed(i) ==
    \/ dIdeas[i].phase = "rejected"
    \/ dIdeas[i].generation \in {"rejects", "unparsable"}
    \/ dIdeas[i].critique = "unmappable"
    \/ dIdeas[i].generation = "unmappable" /\ dIdeas[i].critique # "ideas"

\* C19 as stated: in a detect run where idea generation fails for some
\* narratives and succeeds for others, every parsed narrative is returned;
\* the failed ones carry an empty ideas list and the others keep their
\* generated ideas.
C19_FailedNarrativesHaveNoIdeas ==
    DetectReturnedParsed =>
        /\ Len(dIdeas) = Len(dResult.narratives)
        /\ \A i \in 1..Len(dIdeas) :
              IF IdeaFailed(i)
              THEN dIdeas[i].ideas = <<>>
              ELSE "default" \notin Range(dIdeas[i].ideas)

\* The critique request of call i failed or brought no ideas
CritiqueWithoutIdeas(i) == dIdeas[i].critique \in {"rejects", "unparsable", "noIdeas"}

\* C19, amended: every parsed narrative is returned, and what happens to
\* one call changes neither the narrative list nor the ideas another call
\* has returned.  A narrative whose generation request failed or was
\* answered with no JSON, or whose kept ideas could not be mapped, carries
\* the generator's single default idea; a critique that fails or brings no
\* ideas keeps the ideas of the generation pass; a narrative carries no
\* ideas only when its generator call rejected with no request sent or when
\* the model answered without ideas; the others keep their generated or
\* refined ideas.
C19_FailedNarrativesHaveDefaultIdea ==
    /\ [](DetectReturnedParsed =>
            /\ Len(dIdeas) = Len(dResult.narratives)
            /\ \A i \in 1..Len(dIdeas) :
                  /\ dIdeas[i].phase = "rejected" =>
                         (dIdeas[i].ideas = <<>> /\ dIdeas[i].generation = "notSent")
                  /\ dIdeas[i].generation \in {"rejects", "unparsable"} =>
                         (dIdeas[i].ideas = <<"default">> /\ dIdeas[i].critique = "notSent")
                  /\ (dIdeas[i].generation = "ideas" /\ CritiqueWithoutIdeas(i)) =>
                         dIdeas[i].ideas = <<"generated">>
                  /\ dIdeas[i].critique = "ideas" => dIdeas[i].ideas = <<"refined">>
                  /\ dIdeas[i].ideas = <<"default">> <=>
                         (IdeaFailed(i) /\ dIdeas[i].phase # "rejected")
                  /\ dIdeas[i].ideas = <<>> <=>
                         \/ dIdeas[i].phase = "rejected"
                         \/ dIdeas[i].generation = "noIdeas" /\ CritiqueWithoutIdeas(i))
    /\ [][dPc = "awaitIdeas" =>
            /\ dResult' = dResult
            /\ Len(dIdeas') = Len(dIdeas)
            /\ \A i \in 1..Len(dIdeas) :
                   dIdeas[i].phase \in {"returned", "rejected"} => dIdeas'[i] = dIdeas[i]]_vars

\* Two narratives were returned: the generation request failed for the
\* first, which carries the default idea, and the critique request failed
\* for the second, which keeps the ideas of its generation pass.
C19_Witness ==
    /\ DetectReturnedParsed
    /\ Len(dIdeas) = 2
    /\ dIdeas[1].generation = "rejects"
    /\ dIdeas[1].ideas = <<"default">>
    /\ dIdeas[2].generation = "ideas"
    /\ dIdeas[2].critique = "rejects"
    /\ dIdeas[2].ideas = <<"generated">>

\* The generator of the first narrative rejected at getCategoryFeatures
\* after the history was read, with no writing request, and the second
\* narrative has its refined ideas.
C19_WitnessRejectedAfterTitles ==
    /\ DetectReturnedParsed
    /\ Len(dIdeas) = 2
    /\ ~dPrevTitles
    /\ dResult.narratives[1].category \in InheritedKeys
    /\ dIdeas[1].phase = "rejected"
    /\ dIdeas[2].ideas = <<"refined">>
    /\ Len(SelectSeq(dRoutes, LAMBDA r : r = "writing")) = 2

----------------------------------------------------------------------------
(* Claims about the serialised disk writes of the history store            *)

\* The writes whose callback has started and has not yet settled
WritesInProgress == { k \in 1..Len(hWrites) : hWrites[k].state = "writing" }

\* C20: for any number of overlapping record calls, at most one durable
\* write (temp write plus rename) is in progress at any time, and the writes
\* run in the order in which the record calls updated the in-memory list:
\* a write has started only if every write chained before it has settled,
\* and the chain lists the editions in the order they were recorded.
C20_WritesSerialisedInOrder ==
    /\ Cardinality(WritesInProgress) <= 1
    /\ \A i, j \in 1..Len(hWrites) :
          i < j =>
             /\ hWrites[i].edition < hWrites[j].edition
             /\ hWrites[j].state # "queued" => hWrites[i].state = "settled"

\* Two record calls have both updated the list while the first write is
\* still in progress and the second is waiting for it.
C20_Witness ==
    /\ Len(hWrites) >= 2
    /\ hWrites[1].state = "writing"
    /\ hWrites[2].state = "queued"
    /\ hPending = <<>>

\* The second write runs after the first has settled.
C20_WitnessSecondRuns ==
    /\ Len(hWrites) >= 2
    /\ hWrites[1].state = "settled"
    /\ hWrites[2].state = "writing"

----------------------------------------------------------------------------
(* Claims about failed disk writes of the history store                    *)

\* Write k fails in this step
WriteFailing(k) ==
    /\ k <= Len(hWrites')
    /\ hWrites[k].state = "writing"
    /\ hWrites'[k].failed

\* C21: a failed durable write leaves the in-memory edition list (and the
\* file) unchanged; the record call that queued a write has returned its
\* edition whatever the state of the write, failed or not yet run; and after
\* a failed write the write queued next can start.
C21_FailedWriteIsIgnored ==
    /\ [][\A k \in 1..Len(hWrites) :
             WriteFailing(k) => hMem' = hMem /\ hLast' = hLast /\ hDisk' = hDisk]_vars
    /\ [](Len(hWrites) > 0 =>
             /\ hLast.valid
             /\ hLast.edition.serial = hWrites[Len(hWrites)].edition
             /\ Len(hMem) > 0 /\ hMem[1] = hLast.edition)
    /\ [](\A k \in 1..Len(hWrites) :
             (hWrites[k].failed /\ k < Len(hWrites) /\ hWrites[k + 1].state = "queued")
                 => ENABLED DiskWriteBegin(k + 1))

\* The first write failed, the second one ran and put the whole list,
\* both editions included, into the file.
C21_Witness ==
    /\ Len(hWrites) >= 2
    /\ hWrites[1].failed
    /\ hWrites[2].state = "settled" /\ ~hWrites[2].failed
    /\ hDisk.exists /\ hDisk.editions = hMem

\* The record call has returned its edition while its write, queued behind
\* a failed one, has not started.
C21_WitnessReturnedBeforeWrite ==
    /\ Len(hWrites) >= 2
    /\ hWrites[1].failed
    /\ hWrites[2].state = "queued"
    /\ hLast.valid /\ hLast.edition.serial = hWrites[2].edition

----------------------------------------------------------------------------
(* Claims about the signalStrength of returned narratives                  *)

\* The signals of the run's input that narrative n lists, in input order
OwnSignals(n) == SelectSeq(dSignals, LAMBDA x : x.id \in Range(n.signals))

\* C22 as stated: for every narrative returned by detect, on the AI path as
\* well as on the fallback and default paths, signalStrength equals
\* clusterStrength applied to that narrative's own signals list.
C22_StrengthIsClusterStrength ==
    dPc = "done" =>
        \A i \in 1..Len(dResult.narratives) :
            dResult.narratives[i].signalStrength =
                clusterStrength(OwnSignals(dResult.narratives[i]))

\* What the code does: the equality holds for the narratives of the AI
\* path; a fallback narrative carries the rounded mean strength of its
\* signals without the source bonus (50 when it has none), and the default
\* narrative carries 65 with no signals.
C22_StrengthAsBuilt ==
    dPc = "done" =>
        \A i \in 1..Len(dResult.narratives) :
            LET n == dResult.narratives[i]
            IN  CASE n.origin = "ai" ->
                       n.signalStrength = clusterStrength(OwnSignals(n))
                  [] n.origin = "fallback" ->
                       n.signalStrength = FallbackStrength(OwnSignals(n))
                  [] OTHER ->
                       n.signals = <<>> /\ n.signalStrength = 65 * StrengthScale

\* An AI-path run returned a narrative with signals of two sources.
C22_WitnessAiPath ==
    /\ dPc = "done" /\ dResult.kind = "ai"
    /\ \E i \in 1..Len(dResult.narratives) :
          Cardinality(SourcesOf(OwnSignals(dResult.narratives[i]))) = 2

\* A fallback narrative with signals of two sources was returned.
C22_WitnessFallback ==
    /\ dPc = "done" /\ dResult.kind = "fallback"
    /\ \E i \in 1..Len(dResult.narratives) :
          Cardinality(SourcesOf(OwnSignals(dResult.narratives[i]))) = 2

----------------------------------------------------------------------------
(* Claims about clusterStrength and clusterSignals                         *)

\* Mean strength of a against mean strength of b, by cross-multiplication
MeanLeq(a, b) == SumStrength(a) * Len(b) <= SumStrength(b) * Len(a)

NumSources(a) == Cardinality(SourcesOf(a))

\* min(100, mean + 10 * (distinct sources - 1)) in units of 1/StrengthScale,
\* written with the mean as the fraction sum / length
ExpectedStrength(a) ==
    LET scaled == SumStrength(a) * StrengthScale
                     + 10 * (NumSources(a) - 1) * StrengthScale * Len(a)
    IN  IF scaled >= 100 * StrengthScale * Len(a)
        THEN 100 * StrengthScale
        ELSE scaled \div Len(a)

\* C23: for member strengths in [0, 100], clusterStrength of a non-empty
\* signal list is min(100, mean strength + 10 * (distinct sources - 1)), lies
\* in [0, 100], and does not decrease when the mean or the number of distinct
\* sources grows while the other is the same; for the empty list it is 0.
C23_ClusterStrengthFormula ==
    kStrength.done =>
        /\ kStrength.a >= 0 /\ kStrength.a <= 100 * StrengthScale
        /\ IF Len(kA) = 0 THEN kStrength.a = 0
           ELSE kStrength.a = ExpectedStrength(kA)
        /\ (Len(kA) > 0 /\ Len(kB) > 0) =>
              /\ (NumSources(kA) = NumSources(kB) /\ MeanLeq(kA, kB))
                    => kStrength.a <= kStrength.b
              /\ (MeanLeq(kA, kB) /\ MeanLeq(kB, kA) /\ NumSources(kA) <= NumSources(kB))
                    => kStrength.a <= kStrength.b

\* Two lists of the same mean strength, the second with more sources and a
\* strictly larger clusterStrength, below the clamp.
C23_Witness ==
    /\ kStrength.done
    /\ Len(kA) > 0 /\ Len(kB) > 0
    /\ MeanLeq(kA, kB) /\ MeanLeq(kB, kA)
    /\ NumSources(kA) < NumSources(kB)
    /\ kStrength.a < kStrength.b
    /\ kStrength.b < 100 * StrengthScale

\* A list whose mean plus bonus exceeds 100: the result is clamped.
C23_WitnessClamped ==
    /\ kStrength.done
    /\ Len(kA) > 0
    /\ SumStrength(kA) + 10 * (NumSources(kA) - 1) * Len(kA) > 100 * Len(kA)
    /\ kStrength.a = 100 * StrengthScale

\* The signal of kA with the given id
SignalOfA(id) == CHOOSE x \in Range(kA) : x.id = id

\* Every member of every returned cluster lists the cluster's key
MembersShareKey ==
    \A key \in DOMAIN kClusters.clusters :
        \A id \in Range(kClusters.clusters[key]) :
            key \in Range(PushedKeys(SignalOfA(id)))

\* C24 as stated: every cluster returned by clusterSignals groups at least
\* 2 distinct signals (distinct ids) that share the cluster's project, token
\* or category key, compared case-insensitively; a key contributed by a
\* single signal is not retained, also when that signal lists the same
\* project or token more than once.
C24_ClustersHaveTwoSignals ==
    kClusters.done =>
        /\ MembersShareKey
        /\ \A key \in DOMAIN kClusters.clusters :
              Cardinality(Range(kClusters.clusters[key])) >= 2

\* What the code does: a cluster is retained when its list has at least 2
\* entries, and a signal that lists a name twice is entered twice.
C24_ClustersHaveTwoEntries ==
    kClusters.done =>
        /\ MembersShareKey
        /\ \A key \in DOMAIN kClusters.clusters :
              Len(kClusters.clusters[key]) >= 2
        /\ \A i \in 1..Len(kA) : \A key \in Range(PushedKeys(kA[i])) :
              key \in DOMAIN kClusters.clusters
                 <=> Len(ClusterMembers(kA, key)) >= 2

\* Two signals naming a project in different case were grouped under it.
C24_WitnessCaseInsensitive ==
    /\ kClusters.done
    /\ ClusterKey("project", "Jupiter") \in DOMAIN kClusters.clusters
    /\ Cardinality(Range(kClusters.clusters[ClusterKey("project", "Jupiter")])) = 2

\* A cluster made of one signal that lists its token twice was returned.
C24_WitnessSingleSignal ==
    /\ kClusters.done
    /\ \E key \in DOMAIN kClusters.clusters :
          Cardinality(Range(kClusters.clusters[key])) = 1

----------------------------------------------------------------------------
(* Claims about client-supplied signals on the streaming route             *)

\* The streaming handler has given a list to detectNarratives
StreamDetecting ==
    eHandler = "narrativesStream" /\ eWork.detects = 1

\* C25: when the streaming entry point receives a non-empty client-supplied
\* signal list, detection runs on exactly that list, no collector is started
\* and the merged-signal cache is neither read nor written; when the list is
\* absent or empty, the signals come from collectAllSignals.
C25_ClientSignalsSkipCollection ==
    /\ (eHandler = "narrativesStream" /\ eOpts.clientSignals = "list") =>
          /\ eWork.collects = 0 /\ ~eWork.collectors /\ eWork.signalCache = {}
          /\ eWork.detectOn \in {"none", "client"}
          /\ ePc # "collecting"
    /\ (StreamDetecting /\ eOpts.clientSignals = "list") => eWork.detectOn = "client"
    /\ (StreamDetecting /\ eOpts.clientSignals # "list") =>
          /\ eWork.detectOn = "collected"
          /\ eWork.collects = 1

\* A streaming request with a client list was answered.
C25_Witness ==
    /\ eHandler = "narrativesStream" /\ eOpts.clientSignals = "list"
    /\ ePc = "done" /\ eResponse = "ok"
    /\ eWork.detectOn = "client"

\* A streaming request with an empty list was answered from a collection
\* that ran the collectors.
C25_WitnessEmptyList ==
    /\ eHandler = "narrativesStream" /\ eOpts.clientSignals = "empty"
    /\ ePc = "done" /\ eResponse = "ok"
    /\ eWork.collectors /\ "write" \in eWork.signalCache

----------------------------------------------------------------------------
(* Claims about overlapping collectAllSignals calls                        *)

\* What the collectors of call c returned, merged in collector order,
\* sorted by strength and enriched
OwnCollection(c) ==
    enrichSignalDescriptions(SortByStrengthDesc(
        MergeSettled(oCalls[c].settled, oCalls[c].returned, NumOverlapCollectors)))

\* C26: when collectAllSignals calls overlap on an empty or expired cache,
\* each of them runs the collectors and returns the result of its own
\* collection; the cache never holds a partially merged result: whenever it
\* has an entry after a call finished, the entry is the whole result of the
\* call that finished last.
C26_OverlappingCollectsLastWriteWins ==
    /\ \A c \in OverlapIds :
          (oCalls[c].pc = "done" /\ oCalls[c].result.kind = "fresh") =>
              /\ \A i \in OverlapCollectors : oCalls[c].settled[i] \in {"fulfilled", "rejected"}
              /\ oCalls[c].result.data = OwnCollection(c)
    /\ oFinished # <<>> =>
          LET last == oFinished[Len(oFinished)]
          IN  oCache.present =>
                 /\ oCache.data = oCalls[last].result.data
                 /\ oCache.data = OwnCollection(last)
                 /\ oCache.collectedAt = oCalls[last].collectedAt
    /\ (oFinished # <<>> /\ \A c \in OverlapIds : oCalls[c].pc # "collecting") =>
          oCache.present

\* Two calls overlapped and collected different lists; the cache holds the
\* list of the second to finish, which was the first to start.
C26_Witness ==
    /\ oOverlapped
    /\ oFinished = <<2, 1>>
    /\ oCalls[1].collectedAt <= oCalls[2].collectedAt
    /\ oCalls[1].result.data # oCalls[2].result.data
    /\ oCache.data = oCalls[1].result.data

-----------------------------------------------------------------------------
(* Claims about detection of an empty signal list                          *)

\* The step in which detectNarratives is called with an empty list
EmptyDetectCall == dPc = "idle" /\ dPc' # "idle" /\ dSignals' = <<>>

\* C27: detect called with an empty signal list returns at once a fallback
\* result holding at least one narrative; the call routes no model call
\* (the list of routed calls stays as it was, no timer is armed, no
\* response is awaited) and leaves the breaker flag and the provider
\* configuration as they were.
C27_EmptyInputFallsBackWithoutModel ==
    [][EmptyDetectCall =>
          /\ dPc' = "done"
          /\ dResult'.kind \in {"fallback", "default"}
          /\ Len(dResult'.narratives) >= 1
          /\ \A i \in 1..Len(dResult'.narratives) :
                 dResult'.narratives[i].signals = <<>>
          /\ dRoutes' = dRoutes
          /\ dTimer' = dTimer
          /\ dFirst' = dFirst
          /\ anthropicDisabled' = anthropicDisabled
          /\ hasAnthropic' = hasAnthropic
          /\ rtCalls' = rtCalls]_vars

\* unnamed/part_012 was called with an empty list and returned the minimal
\* fallback narrative, with no call routed.
C27_Witness ==
    /\ dVariant = "part_012"
    /\ dPc = "done"
    /\ dSignals = <<>>
    /\ dResult.kind = "fallback"
    /\ Len(dResult.narratives) = 1
    /\ dRoutes = <<>>

\* detector.ts was called with an empty list and returned its default
\* narratives, with no call routed.
C27_WitnessDefault ==
    /\ dVariant = "detector_ts"
    /\ dPc = "done"
    /\ dSignals = <<>>
    /\ dResult.kind = "default"
    /\ dRoutes = <<>>

-----------------------------------------------------------------------------
(* Claims about the retryAfter of a denied request                         *)

\* The accepted timestamps of key k still inside the window at time t
StillInWindow(k, t, W) ==
    {rlAccepted[k][j] : j \in {i \in 1..Len(rlAccepted[k]) : t - rlAccepted[k][i] < W}}

\* The oldest of a non-empty set of timestamps
Oldest(S) == CHOOSE x \in S : \A y \in S : x <= y

\* The call of this step is made for route r, after an earlier 429 answer to
\* the same key, at least retryAfter seconds after that answer, and no
\* request of the key was accepted since that answer
RetryAfterWaited(r) ==
    /\ rlCalls' = rlCalls + 1
    /\ rlLast'.key = RLKey(r)
    /\ rlDenied[RLKey(r)].denied
    /\ now' >= rlDenied[RLKey(r)].at + rlDenied[RLKey(r)].retryAfter * 1000
    /\ Len(rlAccepted[RLKey(r)]) = rlDenied[RLKey(r)].accepted

\* C28 as stated: when checkRateLimit denies a request at time t
\* (maxRequests >= 1), whatever the window of its config, its retryAfter is at least 1 second and is the time, rounded up to whole
\* seconds, until the oldest accepted timestamp still inside the window
\* leaves the window; and a request of the same client on the same route at
\* any time >= t + retryAfter seconds is allowed, provided no other request
\* of that key was accepted in between.
C28_RetryAfterIsEnough ==
    [][\A r \in RouteKeys :
          /\ (rlCalls' = rlCalls + 1 /\ rlLast'.key = RLKey(r) /\ ~rlLast'.allowed) =>
                LET W   == rlConfig[r].windowMs
                    inW == StillInWindow(RLKey(r), now', W)
                IN  /\ inW # {}
                    /\ rlLast'.retryAfter >= 1
                    /\ rlLast'.retryAfter = CeilDiv(Oldest(inW) + W - now', 1000)
                    /\ rlLast'.retryAfter * 1000 >= Oldest(inW) + W - now'
                    /\ (rlLast'.retryAfter - 1) * 1000 < Oldest(inW) + W - now'
          /\ RetryAfterWaited(r) => rlLast'.allowed]_vars

\* The retryAfter of a denial of route r's key, as the code computes it:
\* from the first timestamp the key's list holds after the sweep and the
\* filter of this call
RetryAfterFromList(r) ==
    LET W    == rlConfig[r].windowMs
        list == rlStore'[RLKey(r)]
    IN  /\ RLKey(r) \in DOMAIN rlStore'
        /\ list # <<>>
        /\ rlLast'.retryAfter >= 1
        /\ rlLast'.retryAfter = CeilDiv(list[1] + W - now', 1000)

\* What the code does: retryAfter is at least 1 and computed from the first
\* timestamp left in the key's list, which is the oldest accepted timestamp
\* inside the window when the window is no longer than the one the sweep
\* filters with; waiting retryAfter seconds is enough for every config.
C28_RetryAfterAsBuilt ==
    [][\A r \in RouteKeys :
          /\ (rlCalls' = rlCalls + 1 /\ rlLast'.key = RLKey(r) /\ ~rlLast'.allowed) =>
                LET W   == rlConfig[r].windowMs
                    inW == StillInWindow(RLKey(r), now', W)
                IN  /\ RetryAfterFromList(r)
                    /\ W <= SweepWindow =>
                           /\ inW # {}
                           /\ rlStore'[RLKey(r)][1] = Oldest(inW)
          /\ RetryAfterWaited(r) => rlLast'.allowed]_vars

\* A key with a 20-minute window was denied with a retryAfter computed from
\* a timestamp younger than its oldest accepted timestamp inside the
\* window, which the sweep had removed.
C28_WitnessSweptOldest ==
    \E r \in RouteKeys :
        /\ rlConfig[r].windowMs > SweepWindow
        /\ rlLast.key = RLKey(r)
        /\ ~rlLast.allowed
        /\ StillInWindow(RLKey(r), now, rlConfig[r].windowMs) # {}
        /\ rlStore[RLKey(r)][1] >
               Oldest(StillInWindow(RLKey(r), now, rlConfig[r].windowMs))

\* A key was denied with retryAfter 1 when half a second of its window was
\* left, and its next request, one second later, was allowed.
C28_Witness ==
    \E r \in RouteKeys :
        /\ rlDenied[RLKey(r)].denied
        /\ rlDenied[RLKey(r)].retryAfter = 1
        /\ rlDenied[RLKey(r)].at = 1500
        /\ rlLast.key = RLKey(r)
        /\ rlLast.allowed
        /\ rlLast.at = rlDenied[RLKey(r)].at + 1000
        /\ Len(rlAccepted[RLKey(r)]) = rlDenied[RLKey(r)].accepted + 1

\* A key holding two accepted timestamps was denied, and was allowed again
\* after the wait although the younger timestamp was still in its window.
C28_WitnessYoungerStays ==
    \E r \in RouteKeys :
        /\ rlConfig[r].maxRequests = 2
        /\ rlDenied[RLKey(r)].denied
        /\ rlLast.key = RLKey(r)
        /\ rlLast.allowed
        /\ rlLast.at >= rlDenied[RLKey(r)].at + rlDenied[RLKey(r)].retryAfter * 1000
        /\ Len(rlAccepted[RLKey(r)]) = rlDenied[RLKey(r)].accepted + 1
        /\ Len(rlStore[RLKey(r)]) = 2

-----------------------------------------------------------------------------
(* Claims about overwriting a cache entry                                  *)

\* The latest setCache of key k replaced an entry that would have expired
\* later than the entry it stored
ReplacedLongerLife(k) ==
    /\ cLatest[k].live
    /\ cLatest[k].replaced.present
    /\ cLatest[k].replaced.expiresAt > cLatest[k].expiresAt

\* C29: setCache(key, v, ttl) at time t replaces any entry of the key,
\* whatever lifetime that entry had left: the stored entry carries v,
\* expires at t + ttl and was created at t; a later get of the key returns v
\* while the clock is not past t + ttl and absent once it is, also when the
\* replaced entry would have expired later; and the age getCacheStats
\* reports for the key is the time since t, rounded to whole seconds.
C29_SetReplacesWhateverLifetime ==
    /\ \A k \in CacheKeys :
          (cLatest[k].live /\ cStore[k].present) =>
              /\ cStore[k].data = cLatest[k].data
              /\ cStore[k].expiresAt = cLatest[k].expiresAt
              /\ cStore[k].createdAt = cLatest[k].setAt
    /\ cLastGet.valid =>
          LET latest == cLatest[cLastGet.key]
          IN  latest.live =>
                 IF cLastGet.at <= latest.expiresAt
                 THEN cLastGet.found /\ cLastGet.data = latest.data
                 ELSE ~cLastGet.found
    /\ cLastStats.valid =>
          \A k \in CacheKeys :
              (cLatest[k].live /\ cLastStats.at <= cLatest[k].expiresAt) =>
                  /\ k \in DOMAIN cLastStats.ages
                  /\ 1000 * cLastStats.ages[k] <= (cLastStats.at - cLatest[k].setAt) + 500
                  /\ (cLastStats.at - cLatest[k].setAt) + 500 < 1000 * cLastStats.ages[k] + 1000

\* An entry with 15 minutes to live was overwritten by one with 5 minutes,
\* and a get after those 5 minutes, when the replaced entry would still
\* have been alive, returned absent.
C29_Witness ==
    /\ cLastGet.valid
    /\ ReplacedLongerLife(cLastGet.key)
    /\ cLastGet.at > cLatest[cLastGet.key].expiresAt
    /\ cLastGet.at <= cLatest[cLastGet.key].replaced.expiresAt
    /\ ~cLastGet.found

\* An entry was overwritten after it had aged, and getCacheStats then
\* reported the age counted from the overwriting call.
C29_WitnessAgeRestarts ==
    \E k \in CacheKeys :
        /\ cLastStats.valid
        /\ cLatest[k].live
        /\ cLatest[k].replaced.present
        /\ cLatest[k].setAt >= CACHE_TTL_SIGNALS
        /\ k \in DOMAIN cLastStats.ages
        /\ cLastStats.ages[k] = 1
        /\ cLastStats.at = cLatest[k].setAt + 500

----------------------------------------------------------------------------
(* Claims about getCacheStats                                              *)

\* The step of a getCacheStats call
StatsCall == cOps' = cOps + 1 /\ cLastStats'.valid

\* C30: after a getCacheStats call returns, the store holds no entry whose
\* expiresAt is earlier than the time of the call; the returned entry count
\* equals the number of returned keys and the number of returned ages, and
\* both name the entries held; and every entry that was not expired is
\* left as it was.
C30_StatsSweepsExpiredOnly ==
    [][StatsCall =>
          /\ cLastStats'.at = cNow'
          /\ \A k \in CacheKeys :
                 cStore'[k].present => ~(cStore'[k].expiresAt < cNow')
          /\ cLastStats'.entries = Cardinality(cLastStats'.keys)
          /\ cLastStats'.entries = Cardinality(DOMAIN cLastStats'.ages)
          /\ cLastStats'.keys = {k \in CacheKeys : cStore'[k].present}
          /\ DOMAIN cLastStats'.ages = cLastStats'.keys
          /\ \A k \in CacheKeys :
                 (cStore[k].present /\ ~(cStore[k].expiresAt < cNow')) =>
                     cStore'[k] = cStore[k]
          /\ \A k \in CacheKeys : ~cStore[k].present => ~cStore'[k].present]_vars

\* A getCacheStats call found one expired and one live entry: it removed the
\* first and reported the second alone.
C30_Witness ==
    /\ cLastStats.valid
    /\ cLastStats.entries = 1
    /\ \E k \in CacheKeys :
          /\ cLatest[k].live
          /\ cLatest[k].expiresAt < cLastStats.at
          /\ ~cStore[k].present
          /\ k \notin cLastStats.keys
    /\ \E k \in CacheKeys :
          /\ cLatest[k].live
          /\ cLatest[k].expiresAt > cLastStats.at
          /\ cStore[k].present
          /\ cLastStats.keys = {k}

\* A getCacheStats call at the very expiry time of an entry kept it.
C30_WitnessAtExpiry ==
    /\ cLastStats.valid
    /\ \E k \in cLastStats.keys : cStore[k].expiresAt = cLastStats.at

-----------------------------------------------------------------------------
(* Claims about the branches of a detect run                               *)

WritingRouteCount == Len(SelectSeq(dRoutes, LAMBDA r : r = "writing"))

\* A reasoning response of the run was parsed by JSON.parse
ReasoningParsed ==
    \/ dFirst.arrived /\ JsonParses(StripFence(dFirst.content))
    \/ dRepair = "parsed"

\* The safety part of C31: writing-role calls are made only after a
\* reasoning response has been parsed and turned into narratives, a run
\* that ends with the fallback set has made no writing-role call, and a run
\* that has ended has the AI result or the fallback set.
C31_WritingOnlyAfterParseSafety ==
    /\ WritingRouteCount > 0 =>
            /\ ReasoningParsed
            /\ dResult.kind = "ai"
            /\ dPc \in {"awaitIdeas", "done"}
            /\ \A i, j \in 1..Len(dRoutes) :
                   (dRoutes[i] = "reasoning" /\ dRoutes[j] = "writing") => i < j
    /\ (dPc = "done" /\ dResult.kind \in {"fallback", "default"}) =>
            /\ WritingRouteCount = 0
            /\ dIdeas = <<>>
    /\ dPc = "awaitIdeas" => (ReasoningParsed /\ dResult.kind = "ai")
    /\ dPc = "done" => dResult.kind \in {"ai", "fallback", "default"}

\* C31 as stated: in a detect run, writing-role calls are made only after a
\* reasoning response has been parsed and turned into narratives (every
\* writing call follows every reasoning call, and the result is then the
\* AI result); a run that ends with the fallback set (empty input, timeout,
\* provider error, parse failure after the repair) has made no writing-role
\* call; and every run that was started ends in Done, with the AI result or
\* with the fallback set.
C31_WritingOnlyAfterParse ==
    /\ [](WritingRouteCount > 0 =>
            /\ ReasoningParsed
            /\ dResult.kind = "ai"
            /\ dPc \in {"awaitIdeas", "done"}
            /\ \A i, j \in 1..Len(dRoutes) :
                   (dRoutes[i] = "reasoning" /\ dRoutes[j] = "writing") => i < j)
    /\ []((dPc = "done" /\ dResult.kind \in {"fallback", "default"}) =>
            /\ WritingRouteCount = 0
            /\ dIdeas = <<>>)
    /\ [](dPc = "awaitIdeas" => (ReasoningParsed /\ dResult.kind = "ai"))
    /\ [](dPc = "done" => dResult.kind \in {"ai", "fallback", "default"})
    /\ [](dPc # "idle" => <>(dPc = "done"))

\* A run of detector.ts parsed the repaired response and made its writing
\* calls after the two reasoning calls.
C31_Witness ==
    /\ dPc = "done"
    /\ dRepair = "parsed"
    /\ dResult.kind = "ai"
    /\ WritingRouteCount = 2
    /\ ReasoningRoutes = 2

\* A run waits for a writing request of an idea generator after the timer
\* of its source, if it has one, can no longer end it.
C31_WitnessAwaitingWriting ==
    /\ dPc = "awaitIdeas"
    /\ dTimer # "armed"
    /\ CallsIn(dIdeas, "generating") \cup CallsIn(dIdeas, "critiquing") # {}

\* A run of unnamed/part_012 parsed the response, wrote contexts on its
\* input signals and ended with the fallback set from the catch of the
\* template ideas, with no writing call.
C31_WitnessFallbackAfterParse ==
    /\ dVariant = "part_012"
    /\ dPc = "done"
    /\ ReasoningParsed
    /\ dResult.kind = "fallback"
    /\ dContexts # {}
    /\ WritingRouteCount = 0

\* A run ended with the fallback set after the repaired response could not
\* be parsed either, and made no writing call.
C31_WitnessParseFail ==
    /\ dPc = "done"
    /\ dRepair = "unparsable"
    /\ dResult.kind \in {"fallback", "default"}
    /\ ReasoningRoutes = 2
    /\ WritingRouteCount = 0

-----------------------------------------------------------------------------
(* Claims about denied checkRateLimit calls                                *)

\* The step of a checkRateLimit call for route r that is denied
DeniedCall(r) ==
    /\ rlCalls' = rlCalls + 1
    /\ rlLast'.key = RLKey(r)
    /\ ~rlLast'.allowed

\* The timestamps the store held for key k before the step
StoredBefore(k) == IF k \in DOMAIN rlStore THEN rlStore[k] ELSE <<>>

\* C32: a denied checkRateLimit call records no timestamp: the key's list
\* after the call is its list before the call without the timestamps that
\* have left the window, and the history of accepted timestamps is
\* unchanged; so when a key is denied again with nothing accepted in
\* between, the instant at which it is admitted again (oldestInWindow of
\* the answer plus windowMs) is the one of the earlier denial; for a window
\* no longer than the one the sweep filters with, that is the oldest
\* accepted timestamp inside the window plus windowMs.
C32_DeniedCallRecordsNothing ==
    [][\A r \in RouteKeys :
          DeniedCall(r) =>
              LET k == RLKey(r)
                  W == rlConfig[r].windowMs
              IN  /\ rlStore'[k] = SelectSeq(StoredBefore(k), LAMBDA x : now' - x < W)
                  /\ \A i \in 1..Len(rlStore'[k]) :
                         \E j \in 1..Len(StoredBefore(k)) : rlStore'[k][i] = StoredBefore(k)[j]
                  /\ rlAccepted'[k] = rlAccepted[k]
                  /\ (rlDenied[k].denied /\ rlDenied[k].accepted = Len(rlAccepted[k])) =>
                         /\ rlStore'[k][1] + W = rlDenied[k].oldest + W
                         /\ W <= SweepWindow =>
                                Oldest(StillInWindow(k, now', W)) + W
                                    = Oldest(StillInWindow(k, rlDenied[k].at, W)) + W]_vars

\* A key was denied twice in a row, the second time later than the first,
\* with one accepted timestamp in its list all along.
C32_Witness ==
    \E r \in RouteKeys :
        /\ ~rlLast.allowed
        /\ rlLast.key = RLKey(r)
        /\ rlCalls = 3
        /\ DOMAIN rlStore = {RLKey(r)}
        /\ rlAccepted[RLKey(r)] = <<0>>
        /\ rlStore[RLKey(r)] = <<0>>
        /\ rlLast.at = 1500

\* A denied call dropped a timestamp that had left the window and kept the
\* others.
C32_WitnessDropsOld ==
    \E r \in RouteKeys :
        /\ ~rlLast.allowed
        /\ rlLast.key = RLKey(r)
        /\ Len(rlStore[RLKey(r)]) < Len(rlAccepted[RLKey(r)])
        /\ rlDenied[RLKey(r)].at = rlLast.at

-----------------------------------------------------------------------------
(* Claims about the number of provider requests of a route call            *)

\* C33: every route call sends at most two provider requests, the first
\* attempt and one re-issue; when the second request fails as well the call
\* ends with that failure: it returns the error to its caller and sends no
\* request to any further provider.
C33_AtMostTwoRequests ==
    [][\A c \in RouteCallIds :
          /\ Len(rtCalls'[c].sent) <= 2
          /\ Len(rtCalls'[c].sent) >= Len(rtCalls[c].sent)
          /\ (rtCalls[c].pc = "second" /\ rtCalls'[c].pc \notin {"second", "done"}) =>
                /\ rtCalls'[c].pc = "failed"
                /\ rtCalls'[c].result = "error"
                /\ rtCalls'[c].sent = rtCalls[c].sent
          /\ rtCalls[c].pc = "failed" => rtCalls'[c] = rtCalls[c]]_vars

\* A call sent two requests, both failed, and the call returned the error.
C33_Witness ==
    \E c \in RouteCallIds :
        /\ rtCalls[c].pc = "failed"
        /\ rtCalls[c].result = "error"
        /\ Len(rtCalls[c].sent) = 2
        /\ ~rtCalls[c].startedDisabled

----------------------------------------------------------------------------
(* Claims about a redirected call that fails                               *)

\* The step in which the request of a writing call that the open breaker
\* redirected fails
RedirectedCallFailing(c) ==
    /\ rtCalls[c].pc = "redirected"
    /\ rtCalls[c].role = "writing"
    /\ rtCalls'[c].pc \notin {"redirected", "done"}

\* C34 as stated: after the breaker has tripped, a failure of a redirected
\* writing-role call is followed by one further attempt, on the fallback
\* binding, as a transient failure of any other route call is.
C34_RedirectedFailureRetried ==
    [][\A c \in RouteCallIds :
          RedirectedCallFailing(c) =>
              /\ rtCalls'[c].pc = "second"
              /\ Len(rtCalls'[c].sent) = 2
              /\ rtCalls'[c].sent[2] = MODELS("fallback")]_vars

\* What the code does: the redirected request is awaited before the try
\* block, so its failure ends the call with the error after one request; a
\* first request inside the try block that fails is re-issued.
C34_RedirectedFailureAsBuilt ==
    [][\A c \in RouteCallIds :
          /\ RedirectedCallFailing(c) =>
                /\ rtCalls'[c].pc = "failed"
                /\ rtCalls'[c].result = "error"
                /\ rtCalls'[c].sent = rtCalls[c].sent
                /\ Len(rtCalls'[c].sent) = 1
          /\ (rtCalls[c].pc = "first" /\ rtCalls'[c].pc \notin {"first", "done"}) =>
                /\ rtCalls'[c].pc = "second"
                /\ Len(rtCalls'[c].sent) = 2]_vars

\* The breaker tripped on a writing call, a later writing call was
\* redirected to OpenAI, and that call failed after its one request.
C34_WitnessNoRetry ==
    \E c \in RouteCallIds :
        /\ anthropicDisabled
        /\ rtCalls[c].role = "writing"
        /\ rtCalls[c].startedDisabled
        /\ rtCalls[c].pc = "failed"
        /\ rtCalls[c].sent = <<[provider |-> "openai", model |-> "gpt-4o-mini"]>>

-----------------------------------------------------------------------------
(* Claims about the lazy sweep of the rate limiter                         *)

\* The window the sweep filters every key with

\* The step of a checkRateLimit call for route r
CheckCall(r) == rlCalls' = rlCalls + 1 /\ rlLast'.key = RLKey(r)

\* The answer the accepted timestamps of route r's key dictate at time t,
\* when no sweep has touched them
AnswerWithoutSweep(r, t) ==
    ~LimitReached(SelectSeq(rlAccepted[RLKey(r)],
                            LAMBDA x : t - x < rlConfig[r].windowMs),
                  rlConfig[r])

\* A sweep runs only when CLEANUP_INTERVAL has passed since the last one
SweepAtMostOncePerInterval ==
    \A r \in RouteKeys :
        CheckCall(r) =>
            IF rlLast'.swept
            THEN now' - lastCleanup >= CLEANUP_INTERVAL /\ lastCleanup' = now'
            ELSE lastCleanup' = lastCleanup

\* The sweep of this step leaves in the list of route q's key every
\* timestamp that is still inside the window of q's config
SweepKeepsWindowOf(q) ==
    RLKey(q) \in DOMAIN rlStore =>
        \A i \in 1..Len(rlStore[RLKey(q)]) :
            now' - rlStore[RLKey(q)][i] < rlConfig[q].windowMs =>
                /\ RLKey(q) \in DOMAIN rlStore'
                /\ \E j \in 1..Len(rlStore'[RLKey(q)]) :
                       rlStore'[RLKey(q)][j] = rlStore[RLKey(q)][i]

\* C35 as stated: the lazy sweep runs at most once per cleanup interval and
\* never changes an admission decision: for every key and every config
\* passed to checkRateLimit the answer is the one given without the sweep,
\* and the sweep removes no timestamp that is still inside the window of
\* the config used for that key.
C35_SweepNeverChangesDecision ==
    [][/\ SweepAtMostOncePerInterval
       /\ \A r \in RouteKeys :
             CheckCall(r) =>
                 /\ rlLast'.allowed = AnswerWithoutSweep(r, now')
                 /\ \A q \in RouteKeys : SweepKeepsWindowOf(q)]_vars

\* What the code does: the sweep filters every key with the longer of the
\* two RATE_LIMITS windows, so the answer is the one given without the
\* sweep, and no timestamp inside the window is removed, for the keys whose
\* config has a window no longer than that.
C35_SweepAsBuilt ==
    [][/\ SweepAtMostOncePerInterval
       /\ \A r \in RouteKeys :
             CheckCall(r) =>
                 /\ rlConfig[r].windowMs <= SweepWindow =>
                        rlLast'.allowed = AnswerWithoutSweep(r, now')
                 /\ \A q \in RouteKeys :
                        rlConfig[q].windowMs <= SweepWindow => SweepKeepsWindowOf(q)]_vars

\* A key with a 20-minute window was accepted, the sweep ran 15 minutes
\* later, and the key was accepted again inside its window.
C35_WitnessSweptInsideWindow ==
    \E r \in RouteKeys :
        /\ rlConfig[r].windowMs > SweepWindow
        /\ rlLast.key = RLKey(r)
        /\ rlLast.swept
        /\ rlLast.allowed
        /\ Len(rlAccepted[RLKey(r)]) = 2
        /\ rlAccepted[RLKey(r)][2] - rlAccepted[RLKey(r)][1] < rlConfig[r].windowMs

\* A sweep ran on a call of a key with a short window, removed the other
\* key's list, which had left its window, and the call was denied.
C35_WitnessSweepHarmless ==
    \E r \in RouteKeys :
        /\ rlConfig[r].windowMs <= SweepWindow
        /\ rlLast.key = RLKey(r)
        /\ rlLast.swept
        /\ rlLast.at >= 2 * CLEANUP_INTERVAL
        /\ DOMAIN rlStore = {RLKey(r)}
        /\ \A q \in RouteKeys : Len(rlAccepted[RLKey(q)]) > 0

-----------------------------------------------------------------------------
(* Claims about overlapping saveEdition calls                              *)

\* The step in which ensureLoaded finishes reading the durable copy
LoadStep == hLoadState = "reading" /\ hLoadState' \in {"done", "unusable"}

\* The step in which a saveEdition call runs from its await to its return
RecordStep == Len(hPending') < Len(hPending)

\* C36 as stated: for any interleaving of overlapping saveEdition calls
\* and whatever the durable copy holds, also for calls
\* made before the initial load has finished, the durable copy is read at
\* most once (a finished load is never repeated, and it happens before any
\* edition is recorded); every call appends exactly one edition, in front
\* of the editions held, none of which is overwritten or lost below
\* MAX_EDITIONS; and the status values of the new edition are those of a
\* comparison with the editions that follow it in the resulting list.
C36_OverlappingRecordsAppendOnce ==
    [][/\ HistoryLoaded => hLoadState' = hLoadState
       /\ hLoadState = "reading" => hLoadState' \in {"reading", "done", "unusable"}
       /\ LoadStep => (~hLast.valid /\ hWrites = <<>> /\ hSerial' = hSerial)
       /\ (hMem' # hMem) => (LoadStep \/ RecordStep)
       /\ RecordStep =>
             /\ HistoryLoaded
             /\ hPending' = Tail(hPending)
             /\ Len(hMem') = Min(Len(hMem) + 1, MAX_EDITIONS)
             /\ Tail(hMem') = Take(hMem, MAX_EDITIONS - 1)
             /\ hMem'[1] = hLast'.edition
             /\ hMem'[1].narratives = compareWithPrevious(Head(hPending), Tail(hMem'))
             /\ Len(hWrites') = Len(hWrites) + 1]_vars

\* What the code does: the durable copy is read at most once and before
\* any call continues; a call appends exactly one edition as stated when
\* the loaded store has an editions list, and appends nothing, changes
\* nothing and chains no write when it has none.
C36_AppendOnceAsBuilt ==
    [][/\ HistoryLoaded => hLoadState' = hLoadState
       /\ hLoadState = "reading" => hLoadState' \in {"reading", "done", "unusable"}
       /\ LoadStep => (~hLast.valid /\ hWrites = <<>> /\ hSerial' = hSerial)
       /\ (hMem' # hMem) => (LoadStep \/ RecordStep)
       /\ RecordStep =>
             /\ HistoryLoaded
             /\ hPending' = Tail(hPending)
             /\ IF hLoadState = "done"
                THEN /\ Len(hMem') = Min(Len(hMem) + 1, MAX_EDITIONS)
                     /\ Tail(hMem') = Take(hMem, MAX_EDITIONS - 1)
                     /\ hMem'[1] = hLast'.edition
                     /\ hMem'[1].narratives
                           = compareWithPrevious(Head(hPending), Tail(hMem'))
                     /\ Len(hWrites') = Len(hWrites) + 1
                ELSE /\ hMem' = hMem /\ hMem = <<>>
                     /\ hWrites' = hWrites /\ hWrites = <<>>
                     /\ hLast' = hLast /\ ~hLast.valid]_vars

\* Two overlapping saveEdition calls on a durable copy holding null: the
\* copy was read once, both calls have returned, and no edition is held and
\* no write was chained.
C36_WitnessUnusableStore ==
    /\ hRecords = 2
    /\ hPending = <<>>
    /\ hLoadState = "unusable"
    /\ ~hDisk.usable
    /\ hMem = <<>>
    /\ hWrites = <<>>

\* Two overlapping saveEdition calls on a durable copy with editions: both
\* have returned before the write of the first has started, and the list
\* holds the loaded editions and, in front of them and in the order of the
\* calls, the two new ones.
C36_Witness ==
    /\ hRecords = 2
    /\ hPending = <<>>
    /\ hLoadState = "done"
    /\ hDisk.exists
    /\ Len(hWrites) = 2
    /\ \A k \in 1..2 : hWrites[k].state = "queued"
    /\ Len(hLast.before) >= 2
    /\ Len(hMem) = Len(hLast.before) + 1
    /\ hMem[1].serial = hMem[2].serial + 1
    /\ hMem[2].serial = hMem[3].serial + 1
    /\ Tail(Tail(hMem)) = hDisk.editions

\* Two saveEdition calls wait for the one read of the durable copy, which
\* has not finished.
C36_WitnessBeforeLoad ==
    /\ hLoadState = "reading"
    /\ Len(hPending) = 2
    /\ hMem = <<>>
    /\ hDisk.exists

-----------------------------------------------------------------------------
(* Claims about the durable copy of the history                            *)

\* Every queued durable write has completed, none with an error, and no
\* saveEdition call is waiting for the load
AllWritesCompleted ==
    /\ hWrites # <<>>
    /\ hPending = <<>>
    /\ \A k \in 1..Len(hWrites) : hWrites[k].state = "settled" /\ ~hWrites[k].failed

\* The id of the newest edition of a list, 0 for the empty list
NewestSerial(editions) == IF Len(editions) = 0 THEN 0 ELSE editions[1].serial

\* C37: once all queued durable writes have completed without error and no
\* saveEdition call is pending, the durable copy holds exactly the
\* in-memory edition list; and a write that completes never replaces the
\* durable copy by an older state than the one written by a write that
\* completed before it: the new copy is the old one with zero or more
\* editions added in front, cut at MAX_EDITIONS.
C37_DurableCopyCatchesUp ==
    /\ [](AllWritesCompleted => (hDisk.exists /\ hDisk.usable /\ hDisk.editions = hMem))
    /\ [][(hDisk' # hDisk /\ hWrites # <<>> /\ \E k \in 1..Len(hWrites) : hWrites[k].state = "settled" /\ ~hWrites[k].failed) =>
              /\ NewestSerial(hDisk'.editions) >= NewestSerial(hDisk.editions)
              /\ \E n \in 0..Len(hDisk'.editions) :
                     /\ Len(hDisk'.editions) = Min(Len(hDisk.editions) + n, MAX_EDITIONS)
                     /\ SubSeq(hDisk'.editions, n + 1, Len(hDisk'.editions))
                           = Take(hDisk.editions, Len(hDisk'.editions) - n)]_vars

\* Two overlapping saveEdition calls queued two writes; the first wrote the
\* list with one new edition, the second the list with both, and the
\* durable copy now equals the list in memory.
C37_Witness ==
    /\ AllWritesCompleted
    /\ Len(hWrites) = 2
    /\ Len(hWrites[2].data) = Len(hWrites[1].data) + 1
    /\ hDisk.editions = hMem
    /\ Len(hMem) >= 2

\* Both writes wrote the same list: the first started after both editions
\* had been recorded.
C37_WitnessSameState ==
    /\ AllWritesCompleted
    /\ Len(hWrites) = 2
    /\ hWrites[1].data = hWrites[2].data
    /\ hDisk.editions = hMem

----------------------------------------------------------------------------
(* Claims about the aiContext of the signals of a narrative                *)

\* C38 as stated: in a result of the AI path every signal inside a
\* narrative carries as aiContext the value that the returned
\* signalContexts map holds for its id, whatever the order of the
\* narratives and of their supporting-signal contexts in the response.
C38_SignalsCarryReturnedContext ==
    xOut.done =>
        \A i \in 1..Len(xOut.narratives) :
            \A j \in 1..Len(xOut.narratives[i]) :
                xOut.narratives[i][j].aiContext
                    = xOut.signalContexts[xOut.narratives[i][j].id]

\* What the code does: the signals of a narrative are copied with the
\* context known when that narrative is transformed; a signal carries the
\* value of the returned map unless a later narrative of the response gives
\* a context for the same id, and the signals of the last narrative always
\* carry it.
C38_ContextAsOfOwnNarrative ==
    xOut.done =>
        \A i \in 1..Len(xOut.narratives) :
            \A j \in 1..Len(xOut.narratives[i]) :
                LET sig == xOut.narratives[i][j]
                IN  \/ sig.aiContext = xOut.signalContexts[sig.id]
                    \/ \E n \in (i + 1)..Len(xNarrs) :
                          \E k \in 1..Len(xNarrs[n]) :
                              /\ xNarrs[n][k].id = sig.id
                              /\ xNarrs[n][k].context # Undefined

\* The first narrative lists a signal without context, the second gives it
\* one: the copy in the first narrative has no aiContext, the returned map
\* has the context.
C38_WitnessLaterContext ==
    /\ xOut.done
    /\ Len(xOut.narratives) = 2
    /\ \E j \in 1..Len(xOut.narratives[1]) :
          /\ xOut.narratives[1][j].aiContext = Undefined
          /\ xOut.signalContexts[xOut.narratives[1][j].id] \in CtxTexts

\* Two narratives list the same signal with the same context: both copies
\* carry the value of the returned map.
C38_WitnessAgrees ==
    /\ xOut.done
    /\ Len(xOut.narratives) = 2
    /\ \E j \in 1..Len(xOut.narratives[1]), k \in 1..Len(xOut.narratives[2]) :
          /\ xOut.narratives[1][j].id = xOut.narratives[2][k].id
          /\ xOut.narratives[1][j].aiContext \in CtxTexts
          /\ xOut.narratives[1][j].aiContext = xOut.narratives[2][k].aiContext
          /\ xInsights[xOut.narratives[1][j].id] = Undefined

----------------------------------------------------------------------------
(* Claims about the cached merged result after a detect run                *)

\* A detect run that parsed a model response has finished on the result
DetectedOn(ref) ==
    \E r \in SharedRequests :
        /\ mReq[r].ref = ref
        /\ mReq[r].pc = "done"
        /\ mReq[r].path \in {"ai", "default"}

\* A detect run on the result has returned on the given path
ReturnedOn(ref, path) ==
    \E r \in SharedRequests :
        /\ mReq[r].ref = ref
        /\ mReq[r].pc = "done"
        /\ mReq[r].path = path

\* C39 as stated: running detect on the signal list obtained from
\* collectAll does not change the merged result held in the cache; a cache
\* hit returns signals equal, field for field, to those stored when the
\* collection finished.
C39_CacheHitReturnsStoredSignals ==
    mLastHit.ref # 0 => mLastHit.data = CollectedSignals

\* What the code does: a cache hit returns the stored signals with id and
\* strength as collected; a signal's aiContext differs from the stored one
\* only after a detect run was given that same result and has returned.
C39_CacheHitSharesDetectedSignals ==
    mLastHit.ref # 0 =>
        /\ Len(mLastHit.data) = Len(CollectedSignals)
        /\ \A i \in 1..Len(mLastHit.data) :
              /\ mLastHit.data[i].id = CollectedSignals[i].id
              /\ mLastHit.data[i].strength = CollectedSignals[i].strength
              /\ mLastHit.data[i].aiContext # CollectedSignals[i].aiContext
                     => DetectedOn(mLastHit.ref)

\* A detect run on the AI path wrote a context, then a cache hit returned
\* a signal carrying it.
C39_WitnessHitAfterDetect ==
    /\ mLastHit.ref # 0
    /\ ReturnedOn(mLastHit.ref, "ai")
    /\ ~ReturnedOn(mLastHit.ref, "default")
    /\ \E i \in 1..Len(mLastHit.data) : mLastHit.data[i].aiContext \in CtxTexts

\* A cache hit after a detect run that returned the default narratives
\* without writing a context returns the signals as collected.
C39_WitnessHitAfterDefault ==
    /\ mLastHit.ref # 0
    /\ mLastHit.data = CollectedSignals
    /\ ReturnedOn(mLastHit.ref, "default")
    /\ ~ReturnedOn(mLastHit.ref, "ai")

\* A detect run wrote contexts and then returned the default narratives;
\* a cache hit returned a signal carrying one of them.
C39_WitnessHitAfterFallback ==
    /\ mLastHit.ref # 0
    /\ ReturnedOn(mLastHit.ref, "default")
    /\ ~ReturnedOn(mLastHit.ref, "ai")
    /\ \E i \in 1..Len(mLastHit.data) : mLastHit.data[i].aiContext \in CtxTexts

----------------------------------------------------------------------------
(* Claims about the editions and the caching of GET /api/narratives        *)

\* A request to GET /api/narratives that passed the limiter
NarrativesGetRequest == eHandler = "narrativesGet" /\ eLimiter = "allowed"

\* A request to GET /api/narratives has been answered, or has rejected
NarrativesGetEnded == eHandler = "narrativesGet" /\ ePc = "done"

C40_Witness ==
    /\ NarrativesGetRequest
    /\ ePc = "done"
    /\ eWork.narratives = "fallback"
    /\ eWork.editions = 1
    /\ eWork.cacheSets = 1

C40_WitnessDedup ==
    /\ NarrativesGetRequest
    /\ ePc = "done"
    /\ eOpts.dedup
    /\ eWork.editions = 1
    /\ eWork.cacheSets = 0

\* A request answered from the cache.
C40_WitnessCached ==
    /\ NarrativesGetRequest
    /\ eResponse = "cached"
    /\ eWork.editions = 0
    /\ ~eWork.collectors
    /\ eWork.detects = 0

\* A request denied by the limiter: answered 429 with nothing done.
C40_WitnessDenied ==
    /\ NarrativesGetEnded
    /\ eLimiter = "denied"
    /\ eResponse = "429"
    /\ eWork = NoWork

====
